----------------------------- MODULE Definitions -----------------------------
(***************************************************************************)
(* What a script defines, over several passes: variables, functions and    *)
(* translations, and the reminders a pass has issued.  A behaviour runs    *)
(* scripts of one kind, so that the tables are explored one at a time.     *)
(***************************************************************************)
EXTENDS Vars, UserFuncs

CONSTANTS Settable, Preservable, Contextual, \* names that SET, PRESERVE, and a skipped SET name
          VarValues, VarLists, SysSettings, SkippedFsets, FuncLists, Renames,
           Messages, Reminders, MaxPushed

Limit == <<"$ExpressionTimeLimit">>

\* The commands are about names there are; all of them have hash values.
ASSUME NamesAssumption ==
    /\ \A n \in Names : Lower[n] \in DOMAIN HashVal
    /\ Settable \cup Preservable \cup Contextual \subseteq Names
    /\ VarLists \subseteq Seq(Names \cup DOMAIN SysVarArr)
    /\ Messages \cup Reminders \cup {LANGID} \subseteq DOMAIN HashVal

(* The system variables stand for translations, or are numbers that start  *)
(* in the range they may be set to.                                        *)
ASSUME SysVarsAssumption ==
    /\ Limit \in DOMAIN SysVarArr
    /\ \A n \in DOMAIN SysVarArr :
         LET v == SysVarArr[n]
         IN  /\ v.modifiable \in BOOLEAN /\ (v.kind = "limit" <=> n = Limit)
             /\ IF v.kind = "trans" THEN v.orig \in Messages
                ELSE IF n = Limit THEN v.initial \in Nat
                ELSE /\ v.initial \in Int /\ v.min \in Int /\ v.max \in Int
                     /\ v.modifiable => v.initial \in v.min .. v.max
    /\ \A s \in SysSettings : s[1] \in DOMAIN SysVarArr /\ (s[1] = Limit => s[2] \in Int)

\* A line of a file is one command; only the command line has no lines.
ASSUME FunctionsAssumption ==
    /\ \A n \in FuncNames : n \in DOMAIN HashVal /\ FuncLower[n] \in DOMAIN HashVal
    /\ \A cmd \in FsetLines \cup SkippedFsets : cmd.name \in FuncNames
    /\ Renames \subseteq FuncNames \X FuncNames /\ FuncLists \subseteq Seq(FuncNames)
    /\ \A c, d \in FsetLines :
         c.file = d.file /\ c.line = d.line /\ c.file # "[cmdline]" => c.body = d.body

VARIABLES script,
          DedupeTable, \* dedupe.c: the reminders issued in this pass, by date, time and body
          issued       \* ghost: the reminders issued since the table was emptied, in order

definitions == <<VHashTbl, VarStack, sysvars, TopLevel, TranslationTable, FuncHash, UserFuncStack,
                 DedupeTable, issued>>
Variables == <<VHashTbl, VarStack, sysvars, TranslationTable>>
Functions == <<FuncHash, UserFuncStack>>
Issued    == <<DedupeTable, issued>>

Kinds == {"variables", "system variables", "functions", "translations", "reminders"}

-----------------------------------------------------------------------------
\* dedupe.c

InitDedupeTable == DedupeTable = hash_table_init /\ issued = << >>

\* Only the head of a chain is compared.
FaultyShouldDedupe(t, r) ==
    LET chain == t.buckets[BucketOf(t, HashVal[r])] IN chain # << >> /\ Head(chain).key = r

ShouldDedupe(t, r) == hash_table_find(t, r) # NULL

(* A triggered reminder with $DedupeReminders set: issued and remembered   *)
(* unless it was already issued.                                           *)
IssueOnce(r) ==
    /\ ~ ShouldDedupe(DedupeTable, r)
    /\ DedupeTable' = hash_table_insert(DedupeTable, r, TRUE)
    /\ issued' = Append(issued, r)

Suppress(r) == ShouldDedupe(DedupeTable, r) /\ UNCHANGED <<DedupeTable, issued>>
-----------------------------------------------------------------------------
Init == /\ script \in Kinds
        /\ InitVars /\ InitUserFunctions /\ InitDedupeTable
        /\ TranslationTable = InitTranslationTable
        /\ sysvars = [n \in {m \in DOMAIN SysVarArr : SysVarArr[m].kind # "trans"} |-> SysVarArr[n].initial]
        /\ TopLevel = TRUE

VarCommand ==
    /\ script = "variables"
    /\ \/ \E n \in Settable, v \in VarValues : DoSet(n, v, FALSE, FALSE, TRUE)
       \/ \E n \in Contextual, v \in VarValues, b \in BOOLEAN : DoSet(n, v, b, ~ b, FALSE)
       \/ \E n \in Settable : DoUnset(<<n>>)
       \/ \E n \in Preservable : DoPreserve(n)
       \/ \E l \in VarLists : Len(VarStack) < MaxPushed /\ PushVars(l)
       \/ PopVars

SysVarCommand ==
    /\ script = "system variables"
    /\ \/ \E s \in SysSettings : DoSetSys(s[1], s[2])
       \/ \E l \in VarLists : Len(VarStack) < MaxPushed /\ PushVars(l)
       \/ PopVars

FuncCommand ==
    /\ script = "functions"
    /\ \/ \E cmd \in FsetLines : DoFset(cmd, FALSE, TRUE)
       \/ \E cmd \in SkippedFsets : DoFset(cmd, TRUE, FALSE)
       \/ \E n \in FuncNames : DoFunset(n)
       \/ \E p \in Renames : DoFrename(p[1], p[2])
       \/ \E l \in FuncLists : Len(UserFuncStack) < MaxPushed /\ PushUserFuncs(l)
       \/ PopUserFuncs

TransCommand ==
    /\ script = "translations"
    /\ \/ \E o, m \in Messages : DoTranslate(o, m)
       \/ \E o \in Messages : DoUntranslate(o)
       \/ ClearTranslationTable

\* The file being read includes another or ends.
OtherFile == script = "system variables" /\ TopLevel' = ~ TopLevel

(* Between two passes.  Functions, translations and system variables stay. *)
PerIterationInit ==
    /\ VHashTbl' = DestroyVars(VHashTbl) /\ VarStack' = << >>
    /\ UserFuncStack' = << >>
    /\ DedupeTable' = hash_table_init /\ issued' = << >>
    /\ TopLevel' = TRUE
    /\ UNCHANGED <<sysvars, TranslationTable, FuncHash>>

Next == /\ UNCHANGED script
        /\ \/ (VarCommand \/ SysVarCommand) /\ UNCHANGED <<Functions, Issued, TopLevel>>
           \/ FuncCommand /\ UNCHANGED <<Variables, Issued, TopLevel>>
           \/ TransCommand /\ UNCHANGED <<VHashTbl, VarStack, sysvars, Functions, Issued, TopLevel>>
           \/ script = "reminders" /\ (\E r \in Reminders : IssueOnce(r) \/ Suppress(r))
              /\ UNCHANGED <<Variables, Functions, TopLevel>>
           \/ OtherFile /\ UNCHANGED <<Variables, Functions, Issued>>
           \/ PerIterationInit

Spec == Init /\ [][Next]_<<script, definitions>>

-----------------------------------------------------------------------------
(* TypeOK: every table keeps the shape hash_table_insert, hash_table_find  *)
(* and the iterator rely on, through growing, shrinking, renaming and the  *)
(* deletions of a loop over the table (WellFormed in HashTable).           *)
TypeOK == /\ WellFormed(VHashTbl) /\ WellFormed(FuncHash)
          /\ WellFormed(TranslationTable) /\ WellFormed(DedupeTable)

(* $ExpressionTimeLimit is only lowered while an included file is read,    *)
(* by SET and by the POP-VARS of a PUSH-VARS made at the top level.        *)
IncludedFilesOnlyLowerTheLimit ==
    [][~ TopLevel => sysvars'[Limit] = sysvars[Limit] \/ (0 < sysvars'[Limit] /\ sysvars'[Limit] < sysvars[Limit])]_definitions

(* A line that FSET takes for already done has the body of the definition  *)
(* in force, whatever renaming, redefinition in another file, POP-FUNCS or *)
(* new pass came between; and every function, saved ones included, has the *)
(* body of the line it names.                                              *)
FunctionsAsWritten ==
    /\ \A cmd \in FsetLines :
         LET f == FindUserFunc(FuncHash, FuncLower[cmd.name])
         IN  SameLine(f, cmd) => f.data.body = cmd.body
    /\ \A f \in {e.data : e \in Items(FuncHash)}
               \cup {x.data : x \in UNION {ToSet(l) : l \in ToSet(UserFuncStack)}} :
         f = NULL \/ \E cmd \in FsetLines : f.file = cmd.file /\ f.line = cmd.line /\ f.body = cmd.body

(* In a pass no reminder is issued twice, and the table that suppresses    *)
(* reminders holds exactly those that were issued.                         *)
DedupeIsExact == /\ Cardinality(ToSet(issued)) = Len(issued)
                 /\ Keys(DedupeTable) = ToSet(issued)

-----------------------------------------------------------------------------
Folded == {Lower[n] : n \in Names}
DataOf(e) == IF e = NULL THEN NULL ELSE e.data
SavedAs(x) == CASE ~ IsSysVar(x) -> [kind |-> "var", name |-> Lower[x.name], value |-> x.data]
                [] IsSysVar(x) /\ SysVarArr[x.name].kind = "trans" ->
                     [kind |-> "trans", name |-> SysVarArr[x.name].orig, value |-> x.data]
                [] OTHER -> [kind |-> "sys", name |-> x.name, value |-> x.data]
Body(d) == IF d = NULL THEN NULL ELSE [file |-> d.file, line |-> d.line, body |-> d.body]
FuncKeys == {FuncLower[n] : n \in FuncNames} \cup FuncNames

PlainValues == {s[2] : s \in {z \in SysSettings : SysVarArr[z[1]].kind # "trans"}}
FuncBodies == {[file |-> c.file, line |-> c.line, body |-> c.body] : c \in FsetLines}

\* What a lookup finds, and what the stacks hold.
VarsNow   == [k \in Folded |-> DataOf(hash_table_find(VHashTbl, k))]
SavedNow  == [i \in DOMAIN VarStack |-> [j \in DOMAIN VarStack[i] |-> SavedAs(VarStack[i][j])]]
TransNow  == [m \in Messages |-> tr(TranslationTable, m)]
FuncsNow  == [k \in FuncKeys |-> Body(DataOf(hash_table_find(FuncHash, k)))]
CloneAs(x) == [kind |-> "func", name |-> x.name, value |-> Body(x.data)]
ClonesNow == [i \in DOMAIN UserFuncStack |-> [j \in DOMAIN UserFuncStack[i] |-> CloneAs(UserFuncStack[i][j])]]

Maps == INSTANCE DefinitionMaps WITH
    None <- NULL, Values <- VarValues \cup {0}, SysValues <- PlainValues, Bodies <- FuncBodies,
    vars <- VarsNow, saved <- SavedNow, sys <- sysvars, trans <- TransNow, funcs <- FuncsNow,
    clones <- ClonesNow, seen <- Keys(DedupeTable)

(* The tables and stacks implement maps (DefinitionMaps): a lookup finds   *)
(* what was last set under that name, whatever the table went through,     *)
(* POP puts back what PUSH found, and only preserved variables outlive a   *)
(* pass.                                                                   *)
ImplementsMaps == Maps!Spec
=============================================================================

-------------------------------- MODULE Vars --------------------------------
(***************************************************************************)
(* var.c: SET, UNSET, PRESERVE, PUSH-VARS and POP-VARS.  A name is looked  *)
(* up without regard to case (Lower); $-names are system variables.  The   *)
(* bookkeeping of the -du debugging flag is left out.                      *)
(***************************************************************************)
EXTENDS Translations

CONSTANTS Names,     \* names as a script spells them
          Lower,     \* the lower-case form of a name
          SysVarArr  \* system variables: modifiable, kind, value or range

VARIABLES VHashTbl, VarStack, sysvars,
          TopLevel   \* the command being run is in the file given to remind

NewVar == [v |-> 0, preserve |-> FALSE, is_constant |-> TRUE]

FindVar(t, name) == hash_table_find(t, Lower[name])

\* FindVar that creates the variable.
Created(t, name) ==
    IF FindVar(t, name) # NULL THEN t ELSE hash_table_insert(t, Lower[name], NewVar)

DeleteVar(t, name) ==
    LET v == FindVar(t, name) IN IF v = NULL THEN t ELSE hash_table_delete(t, v)

\* Writes data through the pointer that FindVar returns, creating the variable.
Write(t, name, data) == LET u == Created(t, name) IN Update(u, FindVar(u, name), data)

SetVar(t, name, val, nonconst) ==
    LET v == FindVar(Created(t, name), name)
    IN  Write(t, name, [v.data EXCEPT !.v = val, !.is_constant = ~ nonconst])

PreserveVar(t, name) ==
    LET v == FindVar(Created(t, name), name)
    IN  Write(t, name, [v.data EXCEPT !.preserve = TRUE])

-----------------------------------------------------------------------------
\* System variables

GetSysVar(name) ==
    IF SysVarArr[name].kind = "trans" THEN tr(TranslationTable, SysVarArr[name].orig)
    ELSE sysvars[name]

\* An included file may lower $ExpressionTimeLimit only; 0 is no limit.
expr_time_limit_func(old, val, top) ==
    IF val < 0 \/ (~ top /\ (val = 0 \/ val >= old)) THEN old ELSE val

\* The limit is set without asking where the command is.
FaultySysVar(sys, name, val) ==
    LET v == SysVarArr[name]
    IN  CASE ~ v.modifiable \/ v.kind = "trans" -> sys
          [] v.modifiable /\ v.kind = "limit" -> [sys EXCEPT ![name] = val]
          [] OTHER -> IF val \in v.min .. v.max THEN [sys EXCEPT ![name] = val] ELSE sys

\* SetSysVar on the system variables, and on the translations that some of them stand for.
SetSysVar(sys, name, val) ==
    LET v == SysVarArr[name]
    IN  CASE ~ v.modifiable \/ v.kind = "trans" -> sys
          [] v.modifiable /\ v.kind = "limit" ->
               [sys EXCEPT ![name] = expr_time_limit_func(@, val, TopLevel)]
          [] OTHER -> IF val \in v.min .. v.max THEN [sys EXCEPT ![name] = val] ELSE sys

SetTranslatableVariable(trans, name, val) ==
    LET v == SysVarArr[name]
    IN  IF v.modifiable /\ v.kind = "trans" THEN InsertTranslation(trans, v.orig, val) ELSE trans

-----------------------------------------------------------------------------
\* Commands

InitVars == VHashTbl = hash_table_init /\ VarStack = << >>

(* SET.  A line that an IF skips is read only where the IF depends on the  *)
(* day, to mark the variable as one that may differ from day to day.       *)
DoSet(name, val, nonconst, ignoring, constant) ==
    /\ VHashTbl' =
         IF ~ ignoring THEN SetVar(VHashTbl, name, val, nonconst \/ ~ constant)
         ELSE LET v == FindVar(VHashTbl, name)
              IN  IF constant \/ v = NULL THEN VHashTbl
                  ELSE Update(VHashTbl, v, [v.data EXCEPT !.is_constant = FALSE])
    /\ UNCHANGED <<VarStack, sysvars, TranslationTable>>

DoSetSys(name, val) ==
    /\ sysvars' = SetSysVar(sysvars, name, val)
    /\ TranslationTable' = SetTranslatableVariable(TranslationTable, name, val)
    /\ UNCHANGED <<VHashTbl, VarStack>>

\* UNSET goes on to the next name, whether or not there is such a variable.
Unset(t, names) ==
    LET after[i \in 0 .. Len(names)] == IF i = 0 THEN t ELSE DeleteVar(after[i - 1], names[i])
    IN  after[Len(names)]

DoUnset(names) ==
    /\ VHashTbl' = Unset(VHashTbl, names)
    /\ UNCHANGED <<VarStack, sysvars, TranslationTable>>

DoPreserve(name) ==
    /\ VHashTbl' = PreserveVar(VHashTbl, name)
    /\ UNCHANGED <<VarStack, sysvars, TranslationTable>>

\* What add_var_to_push and add_sysvar_to_push save: NULL for a variable there is not.
Saved(name) ==
    IF name \in DOMAIN SysVarArr THEN [name |-> name, data |-> GetSysVar(name)]
    ELSE LET v == FindVar(VHashTbl, name)
         IN  [name |-> name, data |-> IF v = NULL THEN NULL ELSE v.data]

(* PUSH-VARS saves all the names it is given or, if one of them cannot be  *)
(* set, none.                                                              *)
PushVars(names) ==
    /\ VarStack' = IF \E n \in ToSet(names) \cap DOMAIN SysVarArr : ~ SysVarArr[n].modifiable
                   THEN VarStack
                   ELSE <<[i \in DOMAIN names |-> Saved(names[i])]>> \o VarStack
    /\ UNCHANGED <<VHashTbl, sysvars, TranslationTable>>

Restore(t, saved) ==
    IF saved.data = NULL THEN DeleteVar(t, saved.name)
    ELSE Write(t, saved.name, saved.data)

(* POP-VARS restores the system variables, then the others, each in the    *)
(* order of the PUSH-VARS: a loop for each of the three things it changes. *)
IsSysVar(x) == x.name \in DOMAIN SysVarArr

RestoreSysVars(sys, pv) ==
    LET after[i \in 0 .. Len(pv)] ==
            IF i = 0 THEN sys
            ELSE IF IsSysVar(pv[i]) THEN SetSysVar(after[i - 1], pv[i].name, pv[i].data) ELSE after[i - 1]
    IN  after[Len(pv)]

RestoreTranslations(trans, pv) ==
    LET after[i \in 0 .. Len(pv)] ==
            IF i = 0 THEN trans
            ELSE IF IsSysVar(pv[i]) THEN SetTranslatableVariable(after[i - 1], pv[i].name, pv[i].data)
            ELSE after[i - 1]
    IN  after[Len(pv)]

RestoreVars(t, pv) ==
    LET after[i \in 0 .. Len(pv)] ==
            IF i = 0 THEN t ELSE IF IsSysVar(pv[i]) THEN after[i - 1] ELSE Restore(after[i - 1], pv[i])
    IN  after[Len(pv)]

PopVars ==
    /\ VarStack # << >>
    /\ sysvars' = RestoreSysVars(sysvars, Head(VarStack))
    /\ TranslationTable' = RestoreTranslations(TranslationTable, Head(VarStack))
    /\ VHashTbl' = RestoreVars(VHashTbl, Head(VarStack))
    /\ VarStack' = Tail(VarStack)

\* The variables that survive into the next pass: the preserved ones.
DestroyVars(t) ==
    DeleteAllBut(t, {k \in Keys(t) : hash_table_find(t, k).data.preserve})
=============================================================================

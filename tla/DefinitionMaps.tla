--------------------------- MODULE DefinitionMaps ---------------------------
(***************************************************************************)
(* What the tables promise: variables, functions and translations are      *)
(* maps, PUSH saves part of a map and POP puts exactly that part back, the *)
(* issued reminders are a set, and a new pass keeps only the preserved     *)
(* variables, the functions and the translations.                          *)
(***************************************************************************)
EXTENDS Integers, Sequences

CONSTANTS None, Values, SysValues, Bodies

VARIABLES vars, saved, sys, trans, funcs, clones, seen

all == <<vars, saved, sys, trans, funcs, clones, seen>>

(* Part of a map is saved as a sequence: of which kind of map, the name,   *)
(* the value.  Of two for a name the last counts.                          *)
Restored(map, kind, list) ==
    [n \in DOMAIN map |->
        LET at == {i \in DOMAIN list : list[i].kind = kind /\ list[i].name = n}
        IN  IF at = {} THEN map[n] ELSE list[CHOOSE i \in at : \A j \in at : j <= i].value]

Init == /\ saved = << >> /\ clones = << >> /\ seen = {}
        /\ \A n \in DOMAIN vars : vars[n] = None
        /\ \A n \in DOMAIN funcs : funcs[n] = None

\* Steps of a map f to a map g.
Assigned(f, g) == \E n \in DOMAIN f :
    /\ g[n] # None /\ g[n].v \in Values
    /\ g = [f EXCEPT ![n] = [v |-> g[n].v, is_constant |-> g[n].is_constant,
                             preserve |-> f[n] # None /\ f[n].preserve]]
Removed(f, g) == \A n \in DOMAIN f : g[n] \in {f[n], None}
Preserved(f, g) == \E n \in DOMAIN f :
    g = [f EXCEPT ![n] = [v |-> IF f[n] = None THEN 0 ELSE f[n].v, preserve |-> TRUE,
                          is_constant |-> f[n] = None \/ f[n].is_constant]]
Changed(f, g, values) == \E n \in DOMAIN f : g[n] \in values /\ g = [f EXCEPT ![n] = g[n]]
Renamed(f, g) == \E n, p \in DOMAIN f : n # p /\ g = [f EXCEPT ![n] = None, ![p] = f[n]]
OneDiffers(f, g) == /\ DOMAIN f = DOMAIN g
                    /\ \E o \in DOMAIN f : \A p \in DOMAIN f \ {o} : g[p] = f[p]

SetVar    == /\ Assigned(vars, vars') \/ Removed(vars, vars') \/ Preserved(vars, vars')
             /\ UNCHANGED <<saved, sys, trans, funcs, clones, seen>>
SetSystem == /\ Changed(sys, sys', SysValues)
             /\ UNCHANGED <<vars, saved, trans, funcs, clones, seen>>
Translate == /\ OneDiffers(trans, trans')
             /\ UNCHANGED <<vars, saved, sys, funcs, clones, seen>>
TranslateNothing ==
    /\ trans' = [o \in DOMAIN trans |-> IF o = <<"LANGID">> THEN <<"en">> ELSE o]
    /\ UNCHANGED <<vars, saved, sys, funcs, clones, seen>>
Define    == /\ Changed(funcs, funcs', {None} \cup Bodies) \/ Renamed(funcs, funcs')
             /\ UNCHANGED <<vars, saved, sys, trans, clones, seen>>

(* A PUSH adds a list of names with the values they have.  Constness and   *)
(* the mark of PUSH-FUNCS are no part of a function.                       *)
IsOf(x, map, kind) == x.kind = kind /\ x.name \in DOMAIN map /\ x.value = map[x.name]

PushVars == /\ saved' # << >> /\ Tail(saved') = saved
            /\ \A i \in DOMAIN Head(saved') :
                IsOf(Head(saved')[i], vars, "var") \/ IsOf(Head(saved')[i], trans, "trans")
                    \/ IsOf(Head(saved')[i], sys, "sys")
            /\ UNCHANGED <<vars, sys, trans, funcs, clones, seen>>

\* The one exception: a limit that was lowered may stay lowered.
PopVars == /\ saved # << >> /\ saved' = Tail(saved)
           /\ vars' = Restored(vars, "var", Head(saved)) /\ trans' = Restored(trans, "trans", Head(saved))
           /\ \A n \in DOMAIN sys : \/ sys'[n] = Restored(sys, "sys", Head(saved))[n]
                                    \/ n = <<"$ExpressionTimeLimit">> /\ sys'[n] = sys[n]
           /\ UNCHANGED <<funcs, clones, seen>>

PushFuncs == /\ clones' # << >> /\ Tail(clones') = clones
             /\ \A i \in DOMAIN Head(clones') : IsOf(Head(clones')[i], funcs, "func")
             /\ UNCHANGED <<vars, saved, sys, trans, funcs, seen>>

PopFuncs == /\ clones # << >> /\ clones' = Tail(clones)
            /\ funcs' = Restored(funcs, "func", Head(clones))
            /\ UNCHANGED <<vars, saved, sys, trans, seen>>

Issue == /\ \E r \in seen' \ seen : seen' = seen \cup {r}
         /\ UNCHANGED <<vars, saved, sys, trans, funcs, clones>>

Kept(f) == [n \in DOMAIN f |-> IF f[n] # None /\ f[n].preserve THEN f[n] ELSE None]
NewPass == /\ vars' = Kept(vars) /\ saved' = << >> /\ clones' = << >> /\ seen' = {}
           /\ UNCHANGED <<sys, trans, funcs>>

Next == \/ SetVar \/ SetSystem \/ Translate \/ TranslateNothing \/ Define \/ Issue \/ NewPass
        \/ PushVars \/ PopVars \/ PushFuncs \/ PopFuncs

Spec == Init /\ [][Next]_all
=============================================================================

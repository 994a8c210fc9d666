---------------------------- MODULE Translations ----------------------------
(***************************************************************************)
(* trans.c: the TRANSLATE command and the table of translated messages.    *)
(* A message is a sequence of characters.                                  *)
(***************************************************************************)
EXTENDS HashTable

VARIABLE TranslationTable

LANGID == <<"LANGID">>
English == <<"en">>

Flags == {"#", "0", "-", " ", "+", "'", "I", "%", "1", "2", "3", "4", "5", "6", "7", "8", "9",
          ".", "h", "l", "q", "L", "j", "z", "Z", "t"}

(* The conversions of a printf format: what follows each % up to the first *)
(* character that is no flag, %% left out.                                 *)
get_printf_escapes(s) ==
    LET scan[i \in 0 .. Len(s)] ==
            IF i = 0 THEN [out |-> << >>, in |-> "text"]
            ELSE LET was == scan[i - 1]
                 IN  CASE was.in = "escape" -> [out |-> Append(was.out, s[i]),
                                                in  |-> IF s[i] \in Flags THEN "escape" ELSE "text"]
                       [] was.in = "text" /\ s[i] = "%" /\ i < Len(s) ->
                            [was EXCEPT !.in = IF s[i + 1] = "%" THEN "second %" ELSE "escape"]
                       [] OTHER -> [was EXCEPT !.in = "text"]
    IN  scan[Len(s)].out

printf_formatters_are_safe(orig, translated) ==
    get_printf_escapes(orig) = get_printf_escapes(translated)

FindTranslation(t, orig) == hash_table_find(t, orig)

RemoveTranslation(t, orig) ==
    LET item == FindTranslation(t, orig)
    IN  IF item = NULL THEN t ELSE hash_table_delete(t, item)

InsertTranslation(t, orig, translated) ==
    LET item == FindTranslation(t, orig)
        removed == RemoveTranslation(t, orig)
    IN  IF ~ printf_formatters_are_safe(orig, translated) \/ (item # NULL /\ item.data = translated) THEN t
        ELSE IF orig # LANGID /\ orig = translated THEN removed
        ELSE hash_table_insert(removed, orig, translated)

InitTranslationTable == InsertTranslation(hash_table_init, LANGID, English)

tr(t, orig) ==
    LET item == FindTranslation(t, orig) IN IF item = NULL THEN orig ELSE item.data

\* TRANSLATE "orig" "translated", TRANSLATE "orig" and TRANSLATE CLEAR.
DoTranslate(orig, translated) == TranslationTable' = InsertTranslation(TranslationTable, orig, translated)

DoUntranslate(orig) ==
    LET removed == RemoveTranslation(TranslationTable, orig)
    IN  TranslationTable' = IF orig = LANGID THEN InsertTranslation(removed, LANGID, English)
                            ELSE removed

ClearTranslationTable == TranslationTable' = InitTranslationTable
=============================================================================

---------------------------- MODULE MCEntryPath -----------------------------
(* EntryPath on three handlers: two names of one book on one bar boundary,   *)
(* and an operator's take of the first signal, with a mirror book.           *)
EXTENDS EntryPath

CONSTANTS fudkii, rtx, abc, xyz, t1, t2, t3, s1, s2

MCTasks == {t1, t2, t3}
MCBooks == {fudkii, rtx}
MCBookOf == [t \in MCTasks |-> fudkii]
MCSymbolOf == [t \in MCTasks |-> IF t = t2 THEN xyz ELSE abc]
MCIdOf == [t \in MCTasks |-> IF t = t2 THEN s2 ELSE s1]
MCTwins == [b \in MCBooks |-> IF b = fudkii THEN {rtx} ELSE {}]
=============================================================================

----------------------------- MODULE KeyedLists -----------------------------
(***************************************************************************)
(* The list edits the channel reducers share.  Every list of the protocol    *)
(* state that has an identifying field is edited in the same three ways: an  *)
(* entry is set (replaced in place, or appended), removed, or merged with    *)
(* new configuration values.  `key` is the name of the identifying field.    *)
(***************************************************************************)
EXTENDS Naturals, Sequences, FiniteSets, SequencesExt

\* findIndex(e => e[key] === id), 0 for -1.
FindIndex(list, key, id) == SelectInSeq(list, LAMBDA e : e[key] = id)

\* Faulty: always appends.
FaultySetEntry(list, key, entry) == Append(list, entry)

\* Replaces the entry with the same key in place, appends it otherwise.
SetEntry(list, key, entry) ==
    LET i == FindIndex(list, key, entry[key])
    IN  IF i = 0 THEN Append(list, entry) ELSE ReplaceAt(list, i, entry)

\* Removes the entry with this key; an unknown key is a no-op.
RemoveEntry(list, key, id) ==
    LET i == FindIndex(list, key, id)
    IN  IF i = 0 THEN list ELSE RemoveAt(list, i)

\* Lists of plain values: appended when not included, removed by value.
Include(list, value) == IF Contains(list, value) THEN list ELSE Append(list, value)
Exclude(list, value) == IF Contains(list, value) THEN RemoveFirst(list, value) ELSE list

\* { ...values, ...changes }, or a copy of the changes when `replace` is set.
MergeValues(values, changes, replace) == IF replace THEN changes ELSE changes @@ values

\* No key occurs twice.
UniqueKeys(list, key) ==
    \A i, j \in DOMAIN list : list[i][key] = list[j][key] => i = j

=============================================================================

----------------------------- MODULE Semantics -----------------------------
(***************************************************************************)
(* Descriptions of tables and columns (crates/skardi/src/semantics.rs):    *)
(* those of the context file, overlaid with those of the semantics files.  *)
(*                                                                         *)
(* What is described is <<key>> or <<key, column>>; a key is the parts of  *)
(* a name, <<source>> or <<catalog, schema, table>>.  A file is            *)
(* [kind, entries], an entry [on, text].                                   *)
(***************************************************************************)
EXTENDS Integers, SequencesExt

CONSTANTS NoText,   \* no description
          Conflict  \* not a registry: the files cannot be loaded together

\* ctx_descriptions: source names with the description of the context file.
Inline(described) == [on \in {<<<<name>>>> : name \in {n \in DOMAIN described : described[n] # NoText}} |->
                        [text |-> described[on[1][1]], origin |-> 0]]

With(entries, on, said) ==
    [x \in DOMAIN entries \cup {on} |-> IF x = on THEN said ELSE entries[x]]

\* Mutant: a later entry wins over the entry of an earlier file.
MergedLastWins(entries, entry, n) ==
    CASE entries = Conflict -> Conflict
      [] entries # Conflict /\ Len(entry.on[1]) \notin {1, 3} -> Conflict
      [] OTHER -> IF entry.text = NoText THEN entries
                  ELSE With(entries, entry.on, [text |-> entry.text, origin |-> n])

\* merge_into: names of one or three parts; an empty description says nothing; what a file
\* has described may not be described again, what the context file has may.
Merged(entries, entry, n) ==
    CASE entries = Conflict -> Conflict
      [] entries # Conflict /\ Len(entry.on[1]) \notin {1, 3} -> Conflict
      [] OTHER -> IF entry.text = NoText THEN entries
                  ELSE IF entry.on \in DOMAIN entries /\ entries[entry.on].origin # 0 THEN Conflict
                  ELSE With(entries, entry.on, [text |-> entry.text, origin |-> n])

MergedFile(entries, file, n) ==
    IF file.kind # "semantics" THEN entries
    ELSE FoldLeft(LAMBDA acc, entry : Merged(acc, entry, n), entries, file.entries)

\* SemanticsRegistry::build, the files in the order of their paths.
Overlay(described, files) ==
    FoldLeftDomain(LAMBDA acc, n : MergedFile(acc, files[n], n), Inline(described), files)

TextOf(entries, on) == IF on \in DOMAIN entries THEN entries[on].text ELSE NoText

-----------------------------------------------------------------------------
(* What the result ought to be, whatever the order of the files.            *)

Said(files) ==
    UNION {{n} \X DOMAIN files[n].entries : n \in {m \in DOMAIN files : files[m].kind = "semantics"}}

Entry(files, at) == files[at[1]].entries[at[2]]

Clash(files) ==
    \/ \E a \in Said(files) : Len(Entry(files, a).on[1]) \notin {1, 3}
    \/ \E a, b \in Said(files) :
          /\ a # b /\ Entry(files, a).on = Entry(files, b).on
          /\ Entry(files, a).text # NoText /\ Entry(files, b).text # NoText

\* A file's word on it, or the context file's.
OughtToSay(described, files, on) ==
    LET words == {Entry(files, a).text : a \in {x \in Said(files) : Entry(files, x).on = on}} \ {NoText}
    IN  IF words # {} THEN CHOOSE w \in words : TRUE
        ELSE TextOf(Inline(described), on)
=============================================================================

----------------------------- MODULE MCTableKv -----------------------------
(***************************************************************************)
(* TableKv for TLC: a table, one of the same name in lower case, two whose  *)
(* names lack the schema, one of the same name in another schema, and four  *)
(* batches.                                                                 *)
(***************************************************************************)
EXTENDS TableKv

S_T == <<"S", "T">>
U_T == <<"U", "T">>
s_t == <<"s", "t">>
NoSchema_T == <<"T">>
NoSchema_t == <<"t">>

MCWanted == S_T
MCLower == [S |-> "s", T |-> "t", U |-> "u", s |-> "s", t |-> "t"]
MCNames == {S_T, U_T, s_t, NoSchema_T, NoSchema_t}

MCKeys == {1, 2}

\* Two rows written and one of them deleted, with a batch that cannot be
\* encoded and an empty one in between.
MCBatches ==
    << [op |-> "upsert", bad |-> FALSE, rows |-> <<1, 1>>],
       [op |-> "upsert", bad |-> TRUE,  rows |-> <<2, 2>>],
       [op |-> "upsert", bad |-> FALSE, rows |-> <<0, 0>>],
       [op |-> "delete", bad |-> FALSE, rows |-> <<1, 0>>] >>
=============================================================================

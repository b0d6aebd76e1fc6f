------------------------------ MODULE MCStream -----------------------------
(* Texts are words over two letters; Prefix is the prefix order on them. *)
EXTENDS Stream, SequencesExt

CONSTANTS a, b

MCTexts == {<< >>, <<a>>, <<a, b>>, <<b>>}
MCEmptyText == << >>
MCPrefix == {p \in MCTexts \X MCTexts : IsPrefix(p[1], p[2])}
=============================================================================

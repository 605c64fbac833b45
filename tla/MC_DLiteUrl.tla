------------------------------ MODULE MC_DLiteUrl ------------------------------
EXTENDS DLiteUrl

(* Two letters, so that the three parts of a url can be told apart. *)
MCLetters == {"a", "b"}

(* Words for join: empty, one letter, two letters, and one holding a '/'. *)
MCWords == {<<>>, <<"a">>, <<"b", "a">>, <<"/">>}
=============================================================================

----------------------------- MODULE MCUsers -----------------------------
(* Small tables of accounts for TLC to check Users on.                     *)
EXTENDS Users

AllLetters == {"r", "o", "t", "s", "a", "c", "k", "d", "m", "i", "n", "p"}

\* A name, and one with the separator in it.
OneName == {<<"a">>}
SepName == {<<"a", ":", "n">>}
TwoNames == OneName \cup SepName
\* A short password; one that is longer than its field and is cut, and one with
\* the separator in it.
OnePassword == {<<"p">>}
CutOrSepPassword == {<<"p", "p", "p", "p", "p", "p", "p">>, <<"p", ":", "p">>}
==========================================================================

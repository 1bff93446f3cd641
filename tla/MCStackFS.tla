---------------------------- MODULE MCStackFS ----------------------------
(* Small disks for TLC to check StackFS on. *)
EXTENDS StackFS

TwoNames == {"a", "b"}
OneName == {"a"}
ShortLengths == {1, 3}
==========================================================================

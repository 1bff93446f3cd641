----------------------------- MODULE MCServices -----------------------------
(* Small instances of the parts of Services. *)
EXTENDS Services

\* Bytes: a page is 4 and a word counts to 64, so that 4 GiB are 16 pages.
MCFrames == 0 .. 15
MCMemSizes == {24, 28, 64}
MCUserSlots == {0, 1}
MCKernelSlots == {2, 3}
MCPages == {0, 1}
MCIncrements == {-2, -1, 1, 2}
=============================================================================

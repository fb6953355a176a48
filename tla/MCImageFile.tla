----------------------------- MODULE MCImageFile -----------------------------
(* ImageFile with labels that fill their records and labels that do not.   *)
EXTENDS ImageFile

MCNewLabels == {<<"SYS">>, <<"SYS", "a">>, <<"SYS", "a", "task">>}
=============================================================================

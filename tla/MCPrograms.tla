------------------------------ MODULE MCPrograms ------------------------------
(* Constants of the programs that a configuration file cannot write. *)
EXTENDS Programs

MCUrls        == <<"google", "golang", "blog">>
MCRetryLimits == {-1, 0, 2}
=============================================================================

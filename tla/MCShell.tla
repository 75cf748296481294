------------------------------ MODULE MCShell ------------------------------
(* The instance of Shell that TLC checks. *)
EXTENDS Shell

MCPrograms ==
  [name \in {"gen", "yes", "cat", "head"} |->
     [gen |-> name \in {"gen", "yes"},
      n |-> IF name \in {"gen", "head"} THEN 1 ELSE -1]]

MCLines ==
  { <<"gen", "|", "cat">>,
    <<"yes", "|", "head">>,
    <<"gen", "|", "cat", "|", "cat">>,
    <<"gen", "|", "cat", "|", "cat", "|", "cat">>,
    <<"gen", "&">>,
    <<"nosuch", ";", "gen">>,
    <<"nosuch", "|", "cat">>,
    <<"cd", "<", "f">>,
    <<"yes", "|", "cd">>,
    <<"gen", "|", "cat", "&">>,
    <<"gen", "|", "nosuch">>,
    <<"nosuch", "&">>,
    <<"gen", "|">>,
    <<"cd", "|", "cat", "<", "f">>,
    <<"cat", "<", "f", ">", "f", "&">>,
    <<"cat", "<", "g">>,
    <<"gen", ">", "f", "|", "cat">>,
    <<"gen", "gen", "gen">>,
    <<"gen", ";", "exit">> }

=============================================================================

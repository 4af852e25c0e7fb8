------------------------------- MODULE MCDpo -------------------------------
EXTENDS Dpo

MCNormal == [s \in {"local", "shape", "other"} |-> IF s = "local" THEN "n1" ELSE "n2"]
MCProfiles == {{"local"}, {"shape"}, {"other", "ask"}, {"ask"}}
MCClasses == <<"call", "final">>
=============================================================================

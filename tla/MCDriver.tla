------------------------------- MODULE MCDriver -------------------------------
(* Instances of Driver: two names, a link, a home directory, a variable.     *)
EXTENDS Driver

MCLinks ==
    (<<"in.oil">> :> "in" @@ <<"out.asm">> :> "out" @@ <<"link">> :> "in"
     @@ <<"home", "/", "in.oil">> :> "in" @@ <<"home">> :> "out")

InPaths == {<<"in.oil">>, <<"link">>, <<"$V">>, <<"~", "/", "in.oil">>, <<"~">>, <<"~", "x">>, <<"no">>, << >>, None}
OutPaths == {<<"out.asm">>, <<"in.oil">>, <<"$V">>, <<"no">>, None}
AllArguments == [file : InPaths, output : OutPaths, stdout : BOOLEAN]

\* The variables as a shell sets them, not set, and referring to each other.
MCEnvironments ==
    {"HOME" :> home @@ "$V" :> v : home \in {<<"home">>, <<"$V">>, None}, v \in {<<"out.asm">>, <<"~">>, None}}
MCReferences == {"$V"}

MCSources == {<<"statement">>, <<"error">>}

PlainArguments == [file : {<<"in.oil">>, <<"link">>}, output : {<<"in.oil">>, None}, stdout : BOOLEAN]
PlainEnvironments == {"HOME" :> None @@ "$V" :> None}
=============================================================================

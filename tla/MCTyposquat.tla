----------------------------- MODULE MCTyposquat -----------------------------
(* Typosquat over short names: a, b and o stand for letters, 0 looks like o.  *)
EXTENDS Typosquat, EditDistance

MCTreeWords == {<<"a">>, <<"b", "a">>, <<"a", "b">>, <<"a", "b", "o">>, <<"b", "a", "o">>,
                <<"b", "a", "o", "a">>, <<"o", "o", "o", "o">>}

Glyphed  == <<"a", "b", "0">>
Compound == <<"o", "o", "o", "-", "a", "b", "o">>

Name(scope, bare) == [scope |-> scope, bare |-> bare]
AA == <<"@", "a", "a">>
AB == <<"@", "a", "b">>

MCPopularList ==
  {Name(AA, <<"a", "b", "o">>), Name(AA, <<"b", "a">>), Name(AB, <<"b", "a">>),
   Name(<< >>, <<"B", "a", "o", "a">>), Name(<< >>, Glyphed)}

MCAsked ==
  {Name(AA, <<"b", "a", "o">>), Name(AB, <<"b", "a">>), Name(<<"@", "a">>, <<"a">>),
   Name(<< >>, <<"b", "a", "o", "a">>), Name(<< >>, <<"B", "a">>),
   Name(<<"@", "b", "a", "a">>, Glyphed), Name(<< >>, Compound)}

MCWords == MCTreeWords \union {Glyphed, Compound}
MCFolded == [c \in {"B"} |-> "b"]
=============================================================================

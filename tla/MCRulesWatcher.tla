----------------------------- MODULE MCRulesWatcher -----------------------------
(* The model-checking instance of RulesWatcher and of the exceptions it loads: an *)
(* HTTPS source.                                                                  *)
EXTENDS Compliance

CONSTANTS a, b, broken

MIT == <<"MIT">>
MIT0 == <<"MIT", "0">>
GPL == <<"GPL", "3.0">>
GPLOnly == GPL \o <<"only">>
MPL == <<"MPL", "2.0">>
MPLVariant == MPL \o <<"no", "copyleft", "exception">>
Odd == <<"Odd">>
Text(w) == <<w>>

Allowed == {Text(MIT), Text(MIT0)}
Denied == {Text(GPLOnly), Text(GPL \o <<"or", "later">>), Text(MPL)}
SPDX == <<"MPL 2">> :> Text(MPL)

\* Listed, listed by its base, deprecated in two ways, with an exception, in free
\* text, unlisted, and no license at all.
Alone == {Text(MIT), Text(MPLVariant), Text(GPL \o <<"+">>), Text(GPL \o <<"with", "x">>),
          <<GPLOnly, With, Odd>>, Text(<<"MPL 2">>), Text(Odd), Text(<<"NONE">>)}

Temporary == {<<"tmp.x">>}

Pkg(path, text) == [name |-> path, license |-> text]
Both == {Pkg(<<"h", "o", "p">>, Text(GPLOnly)), Pkg(<<"o", "q">>, Text(GPLOnly)), Pkg(<<"q">>, Text(MPLVariant)),
         Pkg(<<"tmp.x">>, Text(Odd)), Pkg(<<"q">>, <<MIT, Or, GPLOnly>>), Pkg(<<"r">>, Text(MIT))}
ProjectsOf == "one" :> Both @@ "two" :> Both

Blanket(text, status) == [license |-> text, status |-> status]
Rule(path, text, project, status) == [package |-> path, license |-> text, project |-> project, status |-> status]

\* One document exempts a license, whatever its suffix, and a package of one
\* project; the other revokes both and exempts by package alone, and by expression.
ExceptionsOf ==
  a :> [blanket |-> {Blanket(Text(MPL), "approved"), Blanket(Text(GPLOnly), "denied")},
        rules |-> {Rule(<<"o", "p">>, Text(GPLOnly), "one", "allowlisted")}] @@
  b :> [blanket |-> {Blanket(Text(MIT), "approved")},
        rules |-> {Rule(<<"q">>, <<>>, "all projects", "approved"),
                   Rule(<<"p">>, <<MIT, And, GPLOnly>>, "two", "approved")}] @@
  Missing :> [blanket |-> {}, rules |-> {}]
================================================================================

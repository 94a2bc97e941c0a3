----------------------------- MODULE MCSession -----------------------------
(***************************************************************************)
(* Two directories, the second of which has to be added to the search      *)
(* path, and two files, one of them in either directory.                   *)
(***************************************************************************)
EXTENDS SessionMeaning, TLC

S(op, name, text) == [op |-> op, name |-> name, text |-> text]
U(n) == S("use", n, <<>>)
P(d) == S("path", d, <<>>)
E(text) == S("eval", "", text)
M == S("module", "b", <<>>)
C == S("code", "", <<>>)
V == S("parts", "", <<>>)
Bad == S("bad", "", <<>>)
Illegal == S("illegal", "", <<>>)

MCFirstPath == <<"d1">>

OfA == {<<C>>, <<V>>, <<U("b")>>, <<U("b"), U("b")>>, <<P("d2"), U("b")>>, <<P("d2"), Bad>>, <<Illegal>>}
OfB1 == {<<C>>, <<U("a")>>, <<Bad>>}
Some(d, n, texts) == {<<>>} \cup {(<<d, n>> :> text) : text \in texts}
MCFileSystem ==
  {fa @@ fb1 @@ fb2 : fa \in Some("d1", "a", OfA),
                      fb1 \in Some("d1", "b", OfB1), fb2 \in Some("d2", "b", {<<C>>})}

MCSource ==
  {<<C>>, <<Bad>>, <<Illegal>>, <<U("a")>>, <<U("a"), U("a"), U("b")>>, <<U("b"), P("d2"), U("b")>>,
   <<P("d2"), U("a"), U("b")>>, <<M>>, <<E(<<C>>), C>>,
   <<V, U("a"), V, U("a")>>, <<U("a"), U("a"), V>>, <<E(<<V, E(<<V>>)>>), V>>, <<E(<<U("a"), U("a")>>), U("a")>>,
   <<E(<<E(<<C>>), C>>), E(<<Illegal>>)>>, <<E(<<P("d2"), Bad>>), U("b")>>}

Evaluated(texts) == UNION {{t[i].text : i \in DOMAIN t} : t \in texts}
MCText ==
  {<<>>} \cup MCSource \cup Evaluated(MCSource) \cup Evaluated(Evaluated(MCSource))
         \cup OfA \cup OfB1 \cup {<<C>>}
=============================================================================

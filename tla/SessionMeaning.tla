--------------------------- MODULE SessionMeaning ---------------------------
(***************************************************************************)
(* What the lines of a session mean, stated from their texts and the files *)
(* alone: the code of a text, and when a line must end.  The properties    *)
(* compare the stack of activities of module Session with it.              *)
(***************************************************************************)
EXTENDS Session

\* For a text that does not compile, or whose imports nest too deeply.
Unknown == <<Word("unknown")>>

\* The code of statement i of a text, by the file its name stands for in the end;
\* body gives the code of the texts of files.
WordsOf(text, i, body) ==
  LET s == text[i]
  IN  CASE s.op = "code" -> <<Word("code")>>
        [] s.op = "parts" -> <<Word("parts")>>
        [] s.op = "eval" -> <<[Word("eval") EXCEPT !.text = s.text]>> \o Drop
        [] s.op = "module" -> <<[Word("module") EXCEPT !.name = s.name]>> \o Drop
        [] s.op = "path" -> <<>>
        [] s.op = "use" /\ Found(s.name, search) # {} ->
             IF RepeatedUse(text, i) THEN Drop
                                     ELSE Module(body[files[Search(s.name, search)]]) \o Drop
        [] OTHER -> Unknown

\* The code of the texts whose imports nest at most n deep.
CodeTo[n \in 0 .. MaxDepth] ==
  [text \in Text |->
     FlattenSeq([i \in DOMAIN text |->
                   WordsOf(text, i, IF n = 0 THEN [t \in Text |-> Unknown] ELSE CodeTo[n - 1])])]
CodeOf(text) == CodeTo[MaxDepth][text]

\* Some files import each other in a circle, whatever the search path is.
Imports(p, q) == \E i \in DOMAIN files[p] : files[p][i].op = "use" /\ files[p][i].name = q[2]
Acyclic == \A S \in SUBSET (DOMAIN files) \ {{}} : \E p \in S : \A q \in S : ~Imports(p, q)
-----------------------------------------------------------------------------
(* Properties.                                                             *)

\* The code that runs is the one its text stands for: the body of each file at
\* its first use in a text, in the place of the use, however deep the imports
\* are, whatever was compiled or rejected before, and although imported files
\* extend the search path while their importer is being compiled (Compiler::use).
CodeOfTheText ==
  \A k \in DOMAIN active : active[k].kind = "run" => active[k].code = CodeOf(active[k].text)

\* Unless files import each other in a circle, every line ends, and the next one
\* can be entered or the script or the process is over.
LinesEnd ==
  phase \in {"busy", "raise"} /\ Acyclic ~> phase \in {"prompt", "exit 0", "exit 1", "abort"}
=============================================================================

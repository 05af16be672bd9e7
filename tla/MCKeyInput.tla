----------------------------- MODULE MCKeyInput ----------------------------
(* Model-checking instance of KeyInput.                                    *)
EXTENDS KeyInput

CONSTANTS a, b, f1, f2

\* A binding enabled on the path of every node, and one of f1 only.
Anywhere(keys, null) ==
  [keys |-> keys, null |-> null,
   at |-> [n \in Focuses \cup {Root} |-> IF n = Root THEN 0 ELSE 1]]
InF1(keys, null) ==
  [keys |-> keys, null |-> null,
   at |-> [n \in Focuses \cup {Root} |-> IF n = f1 THEN 1 ELSE Disabled]]

MCKeymaps == { << Anywhere(<< a >>, "no"), Anywhere(<< a, b >>, "no"), InF1(<< a, b, a >>, "no") >>,
               << Anywhere(<< a, b >>, "no"), InF1(<< a, b >>, "user"), InF1(<< b, b >>, "no") >> }
MCMoreBindings == { InF1(<< b >>, "no"), Anywhere(<< a, b >>, "base") }
MCTrees == { {f1, f2}, {f2} }
============================================================================

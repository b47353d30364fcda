----------------------------- MODULE MCFigures -----------------------------
(* Figures, with the sets its configurations choose among.                 *)
EXTENDS Figures, TLC

CONSTANTS q1, q2, c1, c2, n1, n2

Symmetric == Permutations(Requests) \cup Permutations(Children)

Everything == {"create", "update", "move", "delete", "edit", "generate", "remove", "reload"}
OneRow == <<1>>

\* A bound of the run: of the two parents, one is edited and takes the edge.
OneChanges ==
    \A t \in Requests :
        ~Active(t, "idle") /\ req[t].op \in {"edit", "generate"} => req[t].row = 1

\* Another: where the children are numbered, the requests are those that take the number's lock,
\* and those that move or remove a child meanwhile.
NumbersMatter ==
    \A t \in Requests :
        numbered /\ ~Active(t, "idle") => req[t].op \in {"create", "generate", "move", "delete"}
=============================================================================

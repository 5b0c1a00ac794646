--------------------------- MODULE MCProjectEffects ---------------------------
(* A project of three procedures in three files.  The bodies are those the  *)
(* properties tell apart: leaves of each kind, call chains, a diamond, a    *)
(* cycle, wrappers of wrappers, handlers, calls of deleted procedures and   *)
(* of one whose declaration is not sure.                                    *)
EXTENDS ProjectEffects

Text(own, calls, role) == [own |-> own, calls |-> calls, role |-> role, sure |-> TRUE]
Unsure(text) == [text EXCEPT !.sure = FALSE]

Bodies ==
  << {Text({}, {2, 3}, "plain"), Text({}, {2}, "handler")},
     {Text({}, {1, 3}, "plain"), Text({}, {3}, "wrapper")},
     {Text({"effect"}, {}, "plain"), Text({"mayRaise"}, {}, "wrapper"),
      Unsure(Text({"mayRaise"}, {}, "wrapper")), Absent} >>

MCProjects == {d \in [Procedures -> UNION Range(Bodies)] : \A p \in Procedures : d[p] \in Bodies[p]}
=============================================================================

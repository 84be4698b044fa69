---------------------------- MODULE MCEnrolments ----------------------------
(* Two masters, a person to be, two schools and the free catalogue.        *)
EXTENDS Enrolments, TLC

CONSTANTS root, boss, ana, north, south, r1, r2

Call(op, actor, u) ==
    [op |-> op, actor |-> actor, user |-> u, school |-> None, role |-> None,
     active |-> None, ids |-> {None}, source |-> "ASSIGNED"]
At(i, s) == [i EXCEPT !.school = s]
As(i, role, ids) == [i EXCEPT !.role = role, !.ids = ids]

MCInitialUser ==
    [u \in Users |-> [state |-> IF u = ana THEN "absent" ELSE "live",
                      active |-> TRUE, role |-> "ADM_MASTER"]]

MCInputs ==
    { Call("register", ana, ana),
      As(Call("create", root, ana), "ALUNO", {north}),
      As(Call("create", boss, ana), "PROFESSOR", {north, south}),
      As(Call("update", root, boss), "ADM_INSTITUICAO", {north}),
      As(Call("update", boss, ana), "ALUNO", {north}),
      As(Call("update", root, ana), None, {south}),
      [Call("update", boss, root) EXCEPT !.active = FALSE],
      [Call("update", boss, boss) EXCEPT !.active = FALSE],
      Call("delete", root, boss), Call("delete", boss, root), Call("delete", root, ana),
      At(Call("close", root, root), north), At(Call("close", root, root), Open),
      At(Call("link", boss, boss), north), At(Call("unlink", root, root), north),
      Call("enrol", root, ana), Call("enrol", ana, boss), [Call("enrol", ana, ana) EXCEPT !.source = "SELF"],
      Call("remove", root, ana) }
=============================================================================

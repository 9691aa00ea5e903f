---------------------------- MODULE MCContainer ----------------------------
(* Two threads on one container: repo asks for db and for the generic box, *)
(* which asks for db again; the decorators are audit, and retry of repo,   *)
(* which asks for db as well.                                              *)
EXTENDS Container

CONSTANTS repo, db, box, audit, retry

MCName == {repo, db, box}
MCDepsOf == [n \in Name |-> CASE n = repo -> {db, box} [] n = box -> {db} [] OTHER -> {}]
MCDecorator == {audit, retry}
MCWants == [d \in Decorator |-> IF d = retry THEN {db} ELSE {}]
MCDecorates == [n \in Name |-> CASE n = repo -> {audit, retry} [] n = db -> {audit} [] OTHER -> {}]
=============================================================================

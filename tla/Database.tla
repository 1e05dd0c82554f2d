------------------------------- MODULE Database -------------------------------
(***************************************************************************)
(* The database a generated script runs on, external to the code: a        *)
(* catalog of objects, and which statements it refuses.                    *)
(***************************************************************************)

Object(kind, name, def) == [kind |-> kind, name |-> name, def |-> def]

Existing(catalog, kind, name) == {o \in catalog : o.kind = kind /\ o.name = name}

\* An object is found when it exists and is of the type the use needs.
Finds(catalog, u) == \E o \in Existing(catalog, u.kind, u.name) : o.def.type = u.type

Makes(s) == s.verb \in {"create", "selectinto"}

\* Creating what exists, emptying what does not, and using what is not there.
Refuses(catalog, s) ==
    \/ \E u \in s.uses : ~Finds(catalog, u)
    \/ Makes(s) /\ ~s.guarded /\ Existing(catalog, s.kind, s.name) # {}
    \/ s.verb = "truncate" /\ ~s.guarded /\ Existing(catalog, s.kind, s.name) = {}

\* A guarded statement whose object is there already does nothing.
Created(catalog, s) ==
    IF Makes(s) /\ Existing(catalog, s.kind, s.name) = {}
    THEN {Object(s.kind, s.name, s.def)} ELSE {}

=============================================================================

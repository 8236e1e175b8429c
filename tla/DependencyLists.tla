-------------------------- MODULE DependencyLists --------------------------
(***************************************************************************)
(* Constraints on version numbers, and the lists that a DependencyList     *)
(* keeps for each of its objects (Constraint.py).                          *)
(***************************************************************************)
EXTENDS VersionNumbers

Constraint(type, version) == [type |-> type, version |-> version]

\* `Any version', as it is added for a dependency without constraints.
Unconstrained == Constraint("", <<0>>)

Fulfilled(c, v) ==
  CASE c.type = "" -> TRUE
    [] c.type = "=" -> v = c.version
    [] c.type = "!=" -> v # c.version
    [] c.type = ">" -> Before(c.version, v)
    [] c.type = ">=" -> ~Before(v, c.version)
    [] c.type = "<" -> Before(v, c.version)
    [] c.type = "<=" -> ~Before(c.version, v)

IsLower(c) == c.type \in {">", ">="}
IsUpper(c) == c.type \in {"<", "<="}

\* Mutant: any two borders at one version meet.
MeetOpen(lower, upper) == lower.version = upper.version \/ Before(lower.version, upper.version)

\* Borders meet if there is a version between them, or on both if they are closed.
Meet(lower, upper) ==
  \/ Before(lower.version, upper.version)
  \/ lower.version = upper.version /\ lower.type = ">=" /\ upper.type = "<="

\* is_compatible, of a constraint and one that is in the list.  `<= v' is not compatible
\* with `= v', although `= v' is with `<= v'.
Compatible(c, other) ==
  CASE c.type = "" \/ other.type = "" -> TRUE
    [] c.type = "=" -> Fulfilled(other, c.version)
    [] other.type = "=" /\ c.type = "<=" -> Before(other.version, c.version)
    [] other.type = "=" -> Fulfilled(c, other.version)
    [] IsLower(c) /\ IsUpper(other) -> Meet(c, other)
    [] IsUpper(c) /\ IsLower(other) -> Meet(other, c)
    [] OTHER -> TRUE

Allows(list, v) == \A i \in DOMAIN list : Fulfilled(list[i], v)

Contradicts(list, c) == \E i \in DOMAIN list : ~Compatible(c, list[i])

\* A hole at a closed border opens it.
AddHole(list, c) ==
  LET border == SelectInSeq(list, LAMBDA e : e.type \in {"<=", ">="} /\ e.version = c.version) IN
  IF border = 0 THEN Append(list, c)
  ELSE [list EXCEPT ![border].type = IF @ = "<=" THEN "<" ELSE ">"]

\* A border takes the place of the one on its side.
AddBorder(list, c, own, opposite) ==
  IF opposite # 0 /\ list[opposite].version = c.version THEN <<Constraint("=", c.version)>>
  ELSE IF own # 0 THEN [list EXCEPT ![own] = c]
  ELSE Append(list, c)

\* add_constraint, of a constraint that does not contradict the list: one whose version the
\* list does not contain is thought to be of no effect.
Add(list, c) ==
  LET lower == SelectInSeq(list, IsLower)
      upper == SelectInSeq(list, IsUpper)
  IN  CASE list = <<>> -> <<c>>
        [] ~Allows(list, c.version) -> list
        [] \E i \in DOMAIN list : list[i].type = "=" -> list
        [] c.type = "" -> list
        [] c.type = "=" -> <<c>>
        [] lower = 0 /\ upper = 0 -> Append(SelectSeq(list, LAMBDA e : e.type # ""), c)
        [] c.type = "!=" -> AddHole(list, c)
        [] IsUpper(c) -> AddBorder(list, c, upper, lower)
        [] IsLower(c) -> AddBorder(list, c, lower, upper)

\* Constraints, one after the other; what contradicts the list raises.
Contradiction == <<Constraint("contradiction", <<>>)>>

AddAll(list, constraints) ==
  LET Step(l, c) == IF l = Contradiction \/ (l # <<>> /\ Contradicts(l, c)) THEN Contradiction
                    ELSE Add(l, c)
  IN  FoldLeft(Step, list, constraints)

\* A DependencyList: a function from its objects to their lists.
NoDependencies == <<>>

AddDependency(deps, object, constraints) ==
  LET list == IF object \in DOMAIN deps THEN deps[object] ELSE <<>>
  IN  [o \in DOMAIN deps \union {object} |->
         IF o = object THEN AddAll(list, constraints) ELSE deps[o]]

Consistent(deps) == Contradiction \notin Range(deps)
=============================================================================

---------------------------- MODULE ObjectEditor ----------------------------
(***************************************************************************)
(* Editing a property in the management shell (object_editor.py and the    *)
(* command `edit' of shell.py).  The value is written to a text, the user  *)
(* runs an editor on it, and the text is read back; as long as it cannot   *)
(* be read the editor comes back with it.                                  *)
(*                                                                         *)
(* The user types, erases and pastes whole lines; Effort is the bound on   *)
(* all of it together.                                                     *)
(***************************************************************************)
EXTENDS ConfigFiles

CONSTANTS
  InitialValues,   \* a sequence of what the property may hold at first
  Typed,           \* the symbols that are typed
  Pasted,          \* the lines that are pasted
  Assigned,        \* the texts that are assigned, `property = text'
  Effort

VARIABLES
  stored,          \* the property
  phase,           \* "shell" or "editing"
  kind,            \* of the object that is edited
  opened,          \* the text which the editor was started with
  text,            \* the text in the editor
  effort           \* what the user has left
editorVars == <<stored, phase, kind, opened, text, effort>>

Kinds == {"str", "strs", "pairs", "deps", "arrows"}
Value(k, of) == [kind |-> k, of |-> of]
None == Value("none", <<>>)

\* Lists are told apart by their elements, and an empty one is a list of strings.
ListValue(k, list) == Value(IF list = <<>> THEN "strs" ELSE k, list)

(***************************************************************************)
(* From a value to its text.  One line stands for the comments on top.     *)
(***************************************************************************)
Header == <<"#", "\"", "\\", "\n">>
Quoted(t) == <<"\"">> \o Escape(t) \o <<"\"">>

ConstraintsText(list) ==
  LET shown == SelectSeq(list, LAMBDA c : c.type # "")
  IN  FlattenSeq([i \in DOMAIN shown |->
                    <<" ">> \o Relations[shown[i].type] \o VersionText(shown[i].version)])

Ordered == <<"\n", " ", "!", "\"", "#", ",", "-", ".">> \o Digits
             \o <<":", "<", "=", ">", "[", "\\", "]", "backquote">> \o Alphabet
Codes(t) == [i \in DOMAIN t |-> Place(t[i], Ordered)]
Objects(deps) == SetToSortSeq(DOMAIN deps, LAMBDA a, b : Before(Codes(a), Codes(b)))

PairText(p) ==
  LET item == [i \in DOMAIN p.items |->
                 (IF i = 1 THEN <<>> ELSE <<",", " ">>) \o Quoted(p.items[i])]
      items == FlattenSeq(item)
  IN  Quoted(p.key) \o <<":", " ">> \o (IF p.many THEN <<"[">> \o items \o <<"]">> ELSE items)

DependenciesText(deps, before) ==
  LET objects == Objects(deps)
  IN  FlattenSeq([i \in DOMAIN objects |->
        before \o Quoted(objects[i]) \o ConstraintsText(deps[objects[i]]) \o <<"\n">>])

ShownText(k, of) ==
  CASE k = "str" -> of
    [] k = "strs" -> Header \o FlattenSeq([i \in DOMAIN of |-> Append(of[i], "\n")])
    [] k = "pairs" -> Header \o FlattenSeq([i \in DOMAIN of |-> Append(PairText(of[i]), "\n")])
    [] k = "deps" -> Header \o DependenciesText(of, <<>>)
    [] k = "arrows" ->
         Header \o FlattenSeq([i \in DOMAIN of |->
                     DependenciesText(of[i].deps, Quoted(of[i].key) \o <<" ", "-", ">", " ">>)])

(***************************************************************************)
(* From a text to a value.                                                 *)
(***************************************************************************)
\* The newline of a text of one line is taken off, of any kind of object.
Fetched(t) ==
  IF Cardinality({i \in DOMAIN t : t[i] = "\n"}) = 1 /\ Last(t) = "\n" THEN Front(t) ELSE t

Uncommented(line) ==
  LET i == SelectInSeq(line, LAMBDA c : c = "#") IN
  Strip(IF i = 0 THEN line ELSE SubSeq(line, 1, i - 1))

StringsRead(t) == [ok |-> TRUE, out |-> Full(Each(Uncommented, Split(t, "\n")))]

\* A line without constraints asks for any version.
AskedBy(line) == IF line.constraints = <<>> THEN <<Unconstrained>> ELSE line.constraints

\* The lines of one object are collated ...
AddLine(deps, line) == AddDependency(deps, line.object, AskedBy(line))
Collated(r) ==
  LET deps == FoldLeft(AddLine, NoDependencies, r.out)
  IN  [ok |-> r.ok /\ Consistent(deps), out |-> deps]

\* ... but those of one package and dependency are not, although the comment says so.
PairOf(line) == [key |-> line.key, deps |-> AddLine(NoDependencies, line)]
Paired(r) ==
  LET pairs == Each(PairOf, r.out)
  IN  [ok |-> r.ok /\ \A i \in DOMAIN pairs : Consistent(pairs[i].deps), out |-> pairs]

Read(k, t) ==
  CASE k = "str" -> [ok |-> TRUE, out |-> t]
    [] k = "strs" -> StringsRead(t)
    [] k = "pairs" -> ReadPairs(t)
    [] k = "deps" -> Collated(ReadDependencies(t))
    [] k = "arrows" -> Paired(ReadArrows(t))

ValueRead(k, r) == IF k \in {"str", "deps"} THEN Value(k, r.out) ELSE ListValue(k, r.out)

(***************************************************************************)
(* The session.                                                            *)
(***************************************************************************)
EditorInit ==
  /\ \E i \in DOMAIN InitialValues : stored = InitialValues[i]
  /\ phase = "shell" /\ kind = "none" /\ opened = <<>> /\ text = <<>>
  /\ effort = Effort

Spend(n) == effort >= n /\ effort' = effort - n

\* `property = text', and `property =' for None.
Assign ==
  /\ phase = "shell" /\ Spend(2)
  /\ stored' \in {Value("str", t) : t \in Assigned} \union {None}
  /\ UNCHANGED <<phase, kind, opened, text>>

\* The question whether to edit the value or to set it to None.
SetNone ==
  /\ phase = "shell" /\ stored.kind # "none" /\ Spend(1)
  /\ stored' = None
  /\ UNCHANGED <<phase, kind, opened, text>>

Start(k, of) ==
  /\ phase = "shell" /\ phase' = "editing"
  /\ kind' = k /\ opened' = ShownText(k, of) /\ text' = opened'
  /\ UNCHANGED <<stored, effort>>

Open == stored.kind # "none" /\ Start(stored.kind, stored.of)

\* There is no value, and the user is asked for its type.
Choose == stored.kind = "none" /\ \E k \in Kinds : Start(k, <<>>)

Write(t) == text' = t /\ UNCHANGED <<stored, phase, kind, opened>>

Type ==
  /\ phase = "editing" /\ Spend(2)
  /\ \E i \in 1..(Len(text) + 1), c \in Typed : Write(InsertAt(text, i, c))

Erase ==
  /\ phase = "editing" /\ Spend(2)
  /\ \E i \in DOMAIN text : Write(RemoveAt(text, i))

EraseLine ==
  /\ phase = "editing" /\ Spend(1)
  /\ LET ends == {i \in DOMAIN text : text[i] = "\n"} IN
     \E end \in ends : LET start == Max({0} \union {i \in ends : i < end})
                       IN  Write(SubSeq(text, 1, start) \o SubSeq(text, end + 1, Len(text)))

Paste ==
  /\ phase = "editing" /\ Spend(1)
  /\ \E line \in Pasted : Write(text \o line)

\* What the editor left behind is read; what cannot be read is edited again.
Return(t) ==
  /\ phase = "editing"
  /\ \E r \in {Read(kind, t)} :
       IF r.ok
       THEN /\ stored' = ValueRead(kind, r)
            /\ phase' = "shell" /\ kind' = "none" /\ opened' = <<>> /\ text' = <<>>
       ELSE opened' = t /\ text' = t /\ UNCHANGED <<stored, phase, kind>>
  /\ UNCHANGED effort

Leave == Return(Fetched(text))

\* The editor fails: the text is the one that it was started with.
LeaveWithFailure == Return(opened)

EditorNext ==
  \/ Assign \/ SetNone \/ Open \/ Choose
  \/ Type \/ Erase \/ EraseLine \/ Paste
  \/ Leave \/ LeaveWithFailure

(***************************************************************************)
(* Whoever leaves the editor with the text as it was shown, or whose       *)
(* editor fails, leaves the property as it was: the texts that the values  *)
(* are written to can be read, and stand for the same values.  This is so  *)
(* but for what ValueSurvives names: versions with a z (VersionNumber.py), *)
(* list items with a # or with blanks around them, or none in them, which  *)
(* are read as lines (lines 97 and 109), and pairs of which a list has not *)
(* one object, since each line becomes a pair (lines 263 to 309).  A text  *)
(* that ends in its only newline loses it (line 77), unless the editor     *)
(* fails.                                                                  *)
(***************************************************************************)
\* If there is a version between borders and outside of holes, one of these is.
Witnesses(cs) == {<<0>>} \union {c.version : c \in cs} \union {Append(c.version, 0) : c \in cs}

SameVersions(deps, others) ==
  /\ DOMAIN deps = DOMAIN others
  /\ \A o \in DOMAIN deps :
       \A v \in Witnesses(ToSet(deps[o] \o others[o])) :
         Allows(deps[o], v) <=> Allows(others[o], v)

SameValue(value, other) ==
  /\ value.kind = other.kind
  /\ CASE value.kind = "deps" -> SameVersions(value.of, other.of)
       [] value.kind = "arrows" ->
            /\ Len(value.of) = Len(other.of)
            /\ \A i \in DOMAIN value.of : /\ value.of[i].key = other.of[i].key
                                          /\ SameVersions(value.of[i].deps, other.of[i].deps)
       [] OTHER -> value.of = other.of

VersionsSurvive(deps) ==
  \A o \in DOMAIN deps : \A i \in DOMAIN deps[o] : Survives(deps[o][i].version)

IsLine(item) == item # <<>> /\ "\n" \notin ToSet(item) /\ Uncommented(item) = item

ValueSurvives(value) ==
  CASE value.kind = "strs" -> \A i \in DOMAIN value.of : IsLine(value.of[i])
    [] value.kind = "deps" -> VersionsSurvive(value.of)
    [] value.kind = "arrows" ->
         \A i \in DOMAIN value.of : /\ Cardinality(DOMAIN value.of[i].deps) = 1
                                    /\ VersionsSurvive(value.of[i].deps)
    [] OTHER -> TRUE

Keeps(t) == \A r \in {Read(kind, t)} : r.ok /\ SameValue(ValueRead(kind, r), stored)

UntouchedKeeps ==
  phase = "editing" /\ stored.kind # "none" /\ ValueSurvives(stored)
    /\ text = ShownText(kind, stored.of)
  => /\ Keeps(text)
     /\ \/ kind = "str" /\ Fetched(text) # text
        \/ Keeps(Fetched(text))

(***************************************************************************)
(* A dependency list allows the versions that each of the lines in the     *)
(* editor allows, and lines are refused as a contradiction only if no      *)
(* version satisfies all of them: with more lines a list never allows      *)
(* more, in whatever order they come (Constraint.py).  A list that nothing *)
(* satisfies need not be refused: `> 1' with `< 1.0' is not, though there  *)
(* is no version between 1 and 1.0.  Left out are a border behind a hole   *)
(* at the same version, which is forgotten, and `<= v' behind `= v', which *)
(* is refused, be it that the list has come to `= v' by `>= v' and `<= v'. *)
(***************************************************************************)
\* The constraints for each of the objects, or for each of the lines that are not collated.
AskedFor(o, lines) ==
  FlattenSeq(Each(AskedBy, SelectSeq(lines, LAMBDA line : line.object = o)))

AskedInLines(lines) == {AskedFor(o, lines) : o \in {line.object : line \in ToSet(lines)}}

AskedInText ==
  CASE kind = "deps" -> AskedInLines(ReadDependencies(text).out)
    [] kind = "arrows" -> {AskedBy(line) : line \in ToSet(ReadArrows(text).out)}
    [] OTHER -> {}

BorderBehindHole(cs) ==
  \E i, j \in DOMAIN cs : /\ i < j /\ cs[i].type = "!=" /\ cs[i].version = cs[j].version
                          /\ IsLower(cs[j]) \/ IsUpper(cs[j])

AtMostBehindEqual(cs) ==
  \E i, j \in DOMAIN cs : /\ i < j /\ cs[i].version = cs[j].version /\ cs[j].type = "<="
                          /\ cs[i].type \in {"=", ">="}

AskedIsMeant ==
  phase = "editing" =>
    \A cs \in AskedInText :
      LET list == AddAll(<<>>, cs)
          meant == {v \in Witnesses(ToSet(cs)) : Allows(cs, v)}
      IN  \/ BorderBehindHole(cs)
          \/ list = Contradiction /\ (meant = {} \/ AtMostBehindEqual(cs))
          \/ /\ list # Contradiction
             /\ meant = {v \in Witnesses(ToSet(cs)) : Allows(list, v)}
=============================================================================

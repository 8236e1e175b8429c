------------------------ MODULE RuntimeDependencies ------------------------
(***************************************************************************)
(* The runtime dependencies of binary packages (StageAddRdeps.py), with    *)
(* the editor of the attribute `additional_rdeps' that they take in.       *)
(*                                                                         *)
(* The stage collects demands, [package, object, constraint], and keeps a  *)
(* DependencyList for each of the binary packages.  What the demands are   *)
(* found in, the files of the packages and of the database, is a world; a  *)
(* world is met at the start of the stage.  The builder holds the lock of  *)
(* the source package, so that what the editor writes comes before the     *)
(* stage or after it.                                                      *)
(***************************************************************************)
EXTENDS ObjectEditor

CONSTANTS
  BuiltVersion,    \* the versions of the binary packages, by their names
  CategoryOf,      \* "all", "dbgsym", "dev", "doc", "common" or "other"
  BaseOf,          \* the name without -dbgsym
  CurrentWord, BuiltWord,  \* stand for `current' and `built'
  Worlds           \* a sequence of them

VARIABLES
  world,
  step,            \* of the stage; "idle", "published", "failed" or "aborted" between builds
  rdeps,           \* the DependencyLists, and what is published of them in the end
  rpredeps,        \* those of the pre-dependencies
  asked            \* history: the demands for rdeps
stageVars == <<world, step, rdeps, rpredeps, asked>>
vars == <<editorVars, stageVars>>

World == Worlds[world]
Packages == DOMAIN BuiltVersion
In(category) == {p \in Packages : CategoryOf[p] = category}
NoLists == [p \in Packages |-> NoDependencies]

Demand(p, object, constraint) == [package |-> p, object |-> object, constraint |-> constraint]
Equal(p, objects) == {Demand(p, o, Constraint("=", BuiltVersion[o])) : o \in objects}
AtLeast(p, found) == Demand(p, found[1], Constraint(">=", found[2]))

(***************************************************************************)
(* Demands by the categories, by shared objects and by analyzers.          *)
(***************************************************************************)
OnAll == UNION {Equal(p, Packages \ {p}) : p \in In("all")}

OnCategories ==
  OnAll \union UNION {Equal(p, {BaseOf[p]}) : p \in In("dbgsym")}
        \union UNION {Equal(p, In("other") \union In("common")) : p \in In("dev")}
        \union UNION {Equal(p, In("common")) : p \in In("doc") \union In("other")}

\* find_binary_packages_with_file, only_newest: of all of the packages with the file.
Newest(file) ==
  {b \in World.files[file] : \A other \in World.files[file] : ~Before(b[2], other[2])}

\* A file of /bin and the like is looked for in /usr as well, and the newer one is taken.
Found(file) ==
  IF file \notin DOMAIN World.usr THEN Newest(file)
  ELSE LET both == Newest(file) \union Newest(World.usr[file])
       IN  IF both = {} THEN {}
           ELSE {CHOOSE b \in both : \A other \in both : ~Before(b[2], other[2])}

OnObjects ==
  LET Of(p) == {AtLeast(p, b) : b \in UNION {Newest(f) : f \in World.objects[p]}}
  IN  {d \in UNION {Of(p) : p \in Packages} : d.object # d.package}

\* The first of the alternatives that a package is found for.
FirstFound(files) == SelectInSeq(files, LAMBDA f : Found(f) # {})

Ambiguous(formula) ==
  LET i == FirstFound(formula.files) IN i # 0 /\ Cardinality(Found(formula.files[i])) > 1

\* What no package is found for is left out.
FormulaDemands(p, formula) ==
  LET i == FirstFound(formula.files)
      files == IF i = 0 THEN {} ELSE {AtLeast(p, b) : b \in Found(formula.files[i])}
      named == {Demand(p, formula.package, c) : c \in ToSet(formula.constraints)}
  IN  {d \in files \union named : d.object # p}

OnFormulas(formulas) ==
  LET Of(p) == UNION {FormulaDemands(p, formula) : formula \in ToSet(formulas[p])}
  IN  UNION {Of(p) : p \in DOMAIN formulas}

Clear(formulas) ==
  \A p \in DOMAIN formulas : \A i \in DOMAIN formulas[p] : ~Ambiguous(formulas[p][i])

(***************************************************************************)
(* Demands by the attributes `additional_rdeps'.                           *)
(***************************************************************************)
\* Mutant: only `current' is substituted.
SubstitutedCurrent(object, v) ==
  IF v = VersionOf(CurrentWord) /\ object \in DOMAIN World.installed
  THEN World.installed[object] ELSE v

SubstitutedVersion(object, v) ==
  CASE v = VersionOf(CurrentWord) ->
         IF object \in DOMAIN World.installed THEN World.installed[object] ELSE v
    [] v = VersionOf(BuiltWord) -> IF object \in Packages THEN BuiltVersion[object] ELSE v
    [] OTHER -> v

Substituted(deps) ==
  [o \in DOMAIN deps |->
     AddAll(<<>>, [i \in DOMAIN deps[o] |->
                     Constraint(deps[o][i].type, SubstitutedVersion(o, deps[o][i].version))])]

\* The attribute of the source package, then those of the binary packages.
SourceFits == stored.kind = "arrows" \/ stored = Value("strs", <<>>)
BinariesFit == \A i \in DOMAIN World.own : World.own[i].value.kind = "deps"

Additional ==
  (IF stored.kind = "arrows" THEN stored.of ELSE <<>>)
    \o [i \in DOMAIN World.own |->
          [key |-> World.own[i].package, deps |-> World.own[i].value.of]]

AdditionalDemands ==
  LET Of(e) == UNION {{Demand(e.key, o, c) : c \in ToSet(e.deps[o])} : o \in DOMAIN e.deps}
  IN  UNION {Of(e) : e \in ToSet(Additional)}

\* Demands of which the order does not matter.
AddDemands(lists, demands) ==
  LET Step(d, ls) == [ls EXCEPT ![d.package] = AddDependency(@, d.object, <<d.constraint>>)]
  IN  FoldSet(Step, lists, demands)

AllConsistent(lists) == \A p \in Packages : Consistent(lists[p])

AddSubstituted(s, p, deps) ==
  LET Step(o, ls) == [ls EXCEPT ![p] = AddDependency(@, o, deps[o])]
      lists == FoldSet(Step, s.lists, DOMAIN deps)
  IN  IF Consistent(deps) /\ AllConsistent(lists) THEN [s EXCEPT !.lists = lists]
      ELSE [s EXCEPT !.end = "aborted"]

\* An entry [key, deps], unless an earlier one has ended the stage.
AddEntry(s, entry) ==
  IF s.end # "" THEN s
  ELSE IF entry.key \notin Packages THEN [s EXCEPT !.end = "failed"]
  ELSE AddSubstituted(s, entry.key, Substituted(entry.deps))

(***************************************************************************)
(* The stage.                                                              *)
(***************************************************************************)
StageInit ==
  /\ world = 1
  /\ step = "idle" /\ rdeps = NoLists /\ rpredeps = NoLists /\ asked = {}

Resting == step \in {"idle", "published", "failed", "aborted"}

\* The effort bounds the builds, too.
Begin ==
  /\ phase = "shell" /\ Resting /\ Spend(1)
  /\ world' \in DOMAIN Worlds
  /\ step' = "categories" /\ rdeps' = NoLists /\ rpredeps' = NoLists /\ asked' = {}
  /\ UNCHANGED <<stored, phase, kind, opened, text>>

\* The stage returns False, the package's fault, or raises, which is the node's.
End(how) == step' = how /\ UNCHANGED <<editorVars, world, rdeps, rpredeps, asked>>

Collect(demands, next) ==
  \E lists \in {AddDemands(rdeps, demands)} :
    IF AllConsistent(lists)
    THEN /\ rdeps' = lists /\ asked' = asked \union demands /\ step' = next
         /\ UNCHANGED <<editorVars, world, rpredeps>>
    ELSE End("aborted")

\* skip_rdeps: the pre-dependencies are not written, and are those of an earlier run.
Skip ==
  /\ step = "categories" /\ World.skip
  /\ rdeps' = AddDemands(rdeps, OnAll) /\ asked' = OnAll
  /\ step' = "published"
  /\ UNCHANGED <<editorVars, world, rpredeps>>

Categories ==
  /\ step = "categories" /\ ~World.skip
  /\ IF \E p \in In("dbgsym") : BaseOf[p] \notin Packages THEN End("failed")
     ELSE Collect(OnCategories, "objects")

SharedObjects ==
  /\ step = "objects"
  /\ IF \E p \in Packages : \E f \in World.objects[p] : Cardinality(Newest(f)) # 1
     THEN End("failed")
     ELSE Collect(OnObjects, "perl")

Perl ==
  /\ step = "perl"
  /\ LET modules == World.modules \ In("dbgsym")
         i == SelectInSeq(World.perl, LAMBDA f : Newest(f) # {})
     IN  IF modules # {} /\ i = 0 THEN End("failed")
         ELSE Collect({AtLeast(p, CHOOSE b \in Newest(World.perl[i]) : TRUE) :
                         p \in modules \ World.perlPackages}, "analyzers")

Analyzers ==
  /\ step = "analyzers"
  /\ LET formulas == [p \in Packages \ In("doc") |-> World.formulas[p]]
     IN  IF Clear(formulas) THEN Collect(OnFormulas(formulas), "scripts") ELSE End("failed")

MaintainerScripts ==
  /\ step = "scripts"
  /\ IF Clear(World.scripts) THEN Collect(OnFormulas(World.scripts), "prescripts")
     ELSE End("failed")

PreScripts ==
  /\ step = "prescripts"
  /\ \E lists \in {AddDemands(rpredeps, OnFormulas(World.prescripts))} :
     CASE ~Clear(World.prescripts) -> End("failed")
       [] ~AllConsistent(lists) -> End("aborted")
       [] OTHER -> /\ rpredeps' = lists /\ step' = "dev"
                   /\ UNCHANGED <<editorVars, world, rdeps, asked>>

\* The -dev packages of the cdeps, in the version that is installed, if it has headers.
DevDependencies ==
  /\ step = "dev"
  /\ LET Wanted == {c \in World.cdeps : c.headers}
         Installed(c) == <<c.name, CHOOSE v \in c.versions : TRUE>>
     IN  CASE World.devMode = "" -> Collect({}, "remove")
           [] World.devMode # "cdeps_headers" -> End("failed")
           [] In("dev") = {} -> Collect({}, "remove")
           [] \E c \in World.cdeps : ~c.found \/ Cardinality(c.versions) # 1 -> End("failed")
           [] OTHER -> Collect({AtLeast(p, Installed(c)) : p \in In("dev"), c \in Wanted},
                               "remove")

Removal ==
  /\ step = "remove"
  /\ rdeps' = [p \in Packages |-> [o \in DOMAIN rdeps[p] \ World.removed[p] |-> rdeps[p][o]]]
  /\ asked' = {d \in asked : d.object \notin World.removed[d.package]}
  /\ step' = "additional"
  /\ UNCHANGED <<editorVars, world, rpredeps>>

\* The message about an attribute of a binary package cannot be formatted, which raises.
AdditionalDependencies ==
  /\ step = "additional"
  /\ IF ~SourceFits THEN End("failed")
     ELSE IF ~BinariesFit THEN End("aborted")
     ELSE \E result \in {FoldLeft(AddEntry, [lists |-> rdeps, end |-> ""], Additional)} :
            IF result.end # "" THEN End(result.end)
            ELSE /\ rdeps' = result.lists /\ step' = "publish"
                 /\ asked' = asked \union AdditionalDemands
                 /\ UNCHANGED <<editorVars, world, rpredeps>>

Publish ==
  /\ step = "publish"
  /\ step' = "published"
  /\ UNCHANGED <<editorVars, world, rdeps, rpredeps, asked>>

\* What an earlier build has published is not looked at any longer.
EditorStep ==
  /\ Resting /\ EditorNext
  /\ world' = 1 /\ step' = "idle" /\ rdeps' = NoLists /\ rpredeps' = NoLists /\ asked' = {}

Init == EditorInit /\ StageInit

Next ==
  \/ EditorStep
  \/ Begin \/ Skip \/ Categories \/ SharedObjects \/ Perl \/ Analyzers \/ MaintainerScripts
  \/ PreScripts \/ DevDependencies \/ Removal \/ AdditionalDependencies \/ Publish

Spec == Init /\ [][Next]_vars

(***************************************************************************)
(* Published dependencies allow the versions that all of the demands which *)
(* were not removed allow, those of the categories, of the files and of    *)
(* the attributes, with the version that is built for the word `built' and *)
(* the one that is installed for `current' (StageAddRdeps.py).  Left out   *)
(* are borders at a version that is also excluded (see AskedIsMeant).      *)
(***************************************************************************)
MeantVersion(object, v) ==
  IF v = VersionOf(BuiltWord) /\ object \in Packages THEN BuiltVersion[object]
  ELSE IF v = VersionOf(CurrentWord) /\ object \in DOMAIN World.installed
  THEN World.installed[object]
  ELSE v

PublishedAsAsked ==
  step = "published" =>
    \A p \in Packages :
      LET of == {d \in asked : d.package = p}
          Meant(object) ==
            {Constraint(d.constraint.type, MeantVersion(object, d.constraint.version)) :
               d \in {d \in of : d.object = object}}
      IN  /\ DOMAIN rdeps[p] = {d.object : d \in of}
          /\ \A object \in {d.object : d \in of} :
               LET cs == Meant(object) IN
               \/ \E c, e \in cs : /\ c.type = "!=" /\ c.version = e.version
                                   /\ IsLower(e) \/ IsUpper(e)
               \/ \A v \in Witnesses(cs) :
                    Allows(rdeps[p][object], v) <=> \A c \in cs : Fulfilled(c, v)
=============================================================================

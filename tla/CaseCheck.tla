----------------------------- MODULE CaseCheck ------------------------------
(***************************************************************************)
(* The validator of cases: the file is read, held against the schema and   *)
(* cross-checked, and the prerequisites of its chapters are searched for   *)
(* cycles, depth first, with a set of visited chapters and the stack of    *)
(* those that the search is inside of.                                     *)
(*                                                                         *)
(* A case is reduced to what the checks tell apart.  Text, and the many    *)
(* places that only mention a suspect, an exhibit, a location or a round,  *)
(* are one set of mentions.                                                *)
(***************************************************************************)
EXTENDS Naturals, Sequences, FiniteSets

CONSTANTS
  Names,        \* ids of chapters, and ids that no chapter has
  Things,       \* everything else that a case declares and mentions
  Admissions,   \* the secrets and breaking points that accounts wait for
  None,
  Cases         \* the cases to validate, see Case

ChapterEntry == [id : Names, prerequisites : SUBSET Names]

\* suspect: whose interview orders the report (investigationRequest).
Exhibit == [id : Things, requires : SUBSET Things, suspect : Things \cup {None},
            arrives : BOOLEAN, told : BOOLEAN, printable : Things \cup {None}]

\* A version, alone or after a caret, and what is neither.
Version  == Nat \X Nat \X Nat
Versions == [form : {"exact", "caret", "neither"}, of : Version]

\* An account of a suspect (interviewLayers).
Layer == [speaker : Things, id : Things, compiles : BOOLEAN,   \* its patterns do
          requires : SUBSET Admissions, excludes : SUBSET Admissions,
          shown : SUBSET Things, hidden : SUBSET Things]

Case == [file : {"missing", "unreadable", "read"},   \* is it there, does it parse
         schema : BOOLEAN,                           \* does it match the schema
         shaped : BOOLEAN,                           \* can the cross-checks walk it
         engine : Versions \cup {None},                 \* its engineVersion
         declared : SUBSET Things, mentioned : SUBSET Things,
         admissions : SUBSET (Things \X Admissions), \* of whom
         chapters : Seq(ChapterEntry), exhibits : Seq(Exhibit), layers : Seq(Layer),
         assets : BOOLEAN]                           \* are its pictures on disk

ASSUME CasesAssumption == Cases \subseteq Case /\ None \notin Things
ASSUME NamesAssumption == IsFiniteSet(Names)   \* cases are files

VARIABLES
  case,      \* the case being validated
  stage,
  next,      \* the chapter that the outer loop takes next
  stack,     \* the calls of dfs in progress, with the prerequisites not looked at
  visited,
  issues,    \* kinds of the issues so far
  cycles     \* the paths of the cycles reported

checkVars == <<case, stage, next, stack, visited, issues, cycles>>

Stages == {"file", "schema", "rules", "search", "done"}
Errors == {"file", "schema", "threw", "engine", "unknown", "request", "itself",
           "printable", "layer", "cycle"}
Kinds  == Errors \cup {"asset"}

CheckTypeOK ==
  /\ case \in Case
  /\ stage \in Stages
  /\ next \in Nat \ {0}
  /\ stack \in Seq([id : Names, left : SUBSET Names])
  /\ visited \subseteq Names
  /\ issues \subseteq Kinds
  /\ cycles \subseteq Seq(Names)

-----------------------------------------------------------------------------
(* The case.                                                               *)

Places == DOMAIN case.chapters
Known  == {case.chapters[i].id : i \in Places}

\* byId: of chapters with the same id the last one counts.  The server's own find
\* takes the first; which of them is meant no check asks.
IsChapter(i, n) ==
  case.chapters[i].id = n /\ \A j \in Places : j > i => case.chapters[j].id # n

Wants(n) == UNION {case.chapters[i].prerequisites : i \in {j \in Places : IsChapter(j, n)}}

ElementsOf(s) == {s[i] : i \in DOMAIN s}
Exhibits      == ElementsOf(case.exhibits)
Layers        == ElementsOf(case.layers)

-----------------------------------------------------------------------------
(* Cross-checks.                                                           *)

\* checkRef, for all that is mentioned.
Unknown ==
  \/ ~ (case.mentioned \subseteq case.declared)
  \/ \E e \in Exhibits : ~ (e.requires \cup ({e.suspect} \ {None}) \subseteq case.declared)
  \/ \E l \in Layers : ~ (l.shown \cup l.hidden \subseteq case.declared)
  \/ \E l \in Layers : ~ ({l.speaker} \X (l.requires \cup l.excludes) \subseteq case.admissions)
  \/ \E i \in Places : ~ (case.chapters[i].prerequisites \subseteq Known)

EngineVersion == <<1, 0, 0>>

\* A caret allows what is newer and has the same first number, or, if that is 0, the
\* same first two.
SemverSatisfies(v, range) ==
  \/ range.form = "exact" /\ v = range.of
  \/ /\ range.form = "caret"
     /\ v[1] = range.of[1]
     /\ \/ v[2] = range.of[2] /\ v[3] >= range.of[3]
        \/ v[1] # 0 /\ v[2] > range.of[2]

\* A report arrives when it is ordered, it is not told in an interview.
BadRequest(e) == e.suspect # None /\ (~ e.arrives \/ e.told)

RequiresItself(e) == e.id \in e.requires

SharedPrintable ==
  \E i, j \in DOMAIN case.exhibits : /\ i < j
                                     /\ case.exhibits[i].printable # None
                                     /\ case.exhibits[i].printable = case.exhibits[j].printable

\* An account that can never stand, or that has the name of another one.
BadLayer(i) ==
  LET l == case.layers[i]
  IN  \/ ~ l.compiles
      \/ l.requires \cap l.excludes # {} \/ l.shown \cap l.hidden # {}
      \/ \E j \in 1 .. (i - 1) : case.layers[j].speaker = l.speaker /\ case.layers[j].id = l.id

Broken ==
  {k \in Kinds :
     \/ k = "engine"    /\ case.engine # None /\ ~ SemverSatisfies(EngineVersion, case.engine)
     \/ k = "unknown"   /\ Unknown
     \/ k = "request"   /\ \E e \in Exhibits : BadRequest(e)
     \/ k = "itself"    /\ \E e \in Exhibits : RequiresItself(e)
     \/ k = "printable" /\ SharedPrintable
     \/ k = "layer"     /\ \E i \in DOMAIN case.layers : BadLayer(i)
     \/ k = "asset"     /\ ~ case.assets}

-----------------------------------------------------------------------------
(* Validation.                                                             *)

CheckInit ==
  /\ case \in Cases
  /\ stage = "file" /\ next = 1 /\ stack = <<>> /\ visited = {}
  /\ issues = {} /\ cycles = {}

Searching == UNCHANGED <<case, stage, issues>>
Aside     == UNCHANGED <<case, next, stack, visited, cycles>>

\* validateCaseById
Read ==
  /\ stage = "file"
  /\ IF case.file = "read" THEN stage' = "schema" /\ UNCHANGED issues
                           ELSE stage' = "done" /\ issues' = {"file"}
  /\ Aside

\* validateCase: a case that does not match the schema is cross-checked as well.
MatchSchema ==
  /\ stage = "schema"
  /\ stage' = "rules"
  /\ issues' = issues \cup (IF case.schema THEN {} ELSE {"schema"})
  /\ Aside

\* crossReferenceChecks: if they throw, all that they found so far is lost, and the
\* exception is an error.
CrossCheck ==
  /\ stage = "rules"
  /\ IF case.shaped THEN stage' = "search" /\ issues' = issues \cup Broken
                    ELSE stage' = "done" /\ issues' = issues \cup {"threw"}
  /\ Aside

\* Names on the path from the outer loop to the call in progress.
Path    == [i \in DOMAIN stack |-> stack[i].id]
OnStack == {stack[i].id : i \in DOMAIN stack}

Frame(n) == [id |-> n, left |-> Wants(n)]

\* Mutant: what was visited is not looked at again, on the stack or not.
DfsVisitedFirst(n, calls) ==
  \/ n \in visited /\ stack' = calls /\ UNCHANGED <<visited, cycles>>
  \/ /\ n \notin visited
     /\ visited' = visited \cup {n} /\ stack' = Append(calls, Frame(n))
     /\ UNCHANGED cycles

\* dfs(n), called by the topmost of "calls".
Dfs(n, calls) ==
  \/ /\ n \in OnStack
     /\ cycles' = cycles \cup {Append(Path, n)}
     /\ stack' = calls /\ UNCHANGED visited
  \/ /\ n \notin OnStack /\ n \in visited
     /\ stack' = calls /\ UNCHANGED <<visited, cycles>>
  \/ /\ n \notin OnStack /\ n \notin visited
     /\ visited' = visited \cup {n}
     /\ stack' = Append(calls, Frame(n))
     /\ UNCHANGED cycles

\* The outer loop.
Root ==
  /\ stage = "search" /\ stack = <<>> /\ next \in Places
  /\ next' = next + 1
  /\ Dfs(case.chapters[next].id, stack)
  /\ Searching

Depth == Len(stack)

\* The inner loop, in any order; a prerequisite that no chapter has is only
\* reported.
Follow ==
  /\ stage = "search" /\ stack # <<>>
  /\ \E p \in stack[Depth].left :
       LET calls == [stack EXCEPT ![Depth].left = @ \ {p}]
       IN  \/ p \in Known /\ Dfs(p, calls)
           \/ p \notin Known /\ stack' = calls /\ UNCHANGED <<visited, cycles>>
  /\ UNCHANGED next /\ Searching

Return ==
  /\ stage = "search" /\ stack # <<>> /\ stack[Depth].left = {}
  /\ stack' = SubSeq(stack, 1, Depth - 1)
  /\ UNCHANGED <<next, visited, cycles>> /\ Searching

Conclude ==
  /\ stage = "search" /\ stack = <<>> /\ next \notin Places
  /\ stage' = "done"
  /\ issues' = issues \cup (IF cycles # {} THEN {"cycle"} ELSE {})
  /\ Aside

CheckNext == Read \/ MatchSchema \/ CrossCheck \/ Root \/ Follow \/ Return \/ Conclude

CheckSpec == CheckInit /\ [][CheckNext]_checkVars /\ WF_checkVars(CheckNext)

-----------------------------------------------------------------------------
(* Properties.                                                             *)

\* A set of chapters each of which waits for another one of the set: none of them
\* can ever be the first to open.
Trap(S)  == S # {} /\ \A n \in S : Wants(n) \cap S # {}
HasCycle == \E S \in SUBSET Known : Trap(S)

\* The search reports a cycle exactly when some chapters wait for each other, from
\* whichever chapter it started and whatever it had visited on the way.
CyclesAreReported ==
  stage = "done" /\ issues \cap {"file", "threw"} = {} =>
    ("cycle" \in issues <=> HasCycle)

\* The prerequisites that the calls still have to look at, those of chapters that
\* were never visited included ...
ToFollow(calls) ==
  {e \in Names \X Names :
     \/ e[1] \notin visited /\ e[2] \in Wants(e[1])
     \/ \E i \in DOMAIN calls : calls[i].id = e[1] /\ e[2] \in calls[i].left}

\* ... the chapters that dfs has not returned from, and the stages to come.
ToReturn == Known \ (visited \ OnStack)
ToPass   == [file |-> 4, schema |-> 3, rules |-> 2, search |-> 1, done |-> 0]

\* Every step of the validation uses up some of the work that remains, so it ends
\* within as many steps as the case has prerequisites, and chapters twice, and
\* stages: no case keeps the validator going for ever, cycles or not.
Remaining ==
  ToPass[stage] + (Len(case.chapters) + 1 - next)
                + Cardinality(ToFollow(stack)) + Cardinality(ToReturn)
LessRemains  == Remaining \in Nat /\ Remaining' < Remaining
WorkGoesDown == [][LessRemains]_checkVars
=============================================================================

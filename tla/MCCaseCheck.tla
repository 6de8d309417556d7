---------------------------- MODULE MCCaseCheck -----------------------------
(* Cases for CaseCheck: every way in which three chapters with three names *)
(* may wait for each other and for a chapter that does not exist, and one  *)
(* healthy case spoilt in every single and double way the checks know.     *)
EXTENDS CaseCheck

CONSTANTS ann, bob, nobody, memo, call, admits, denies, ghost

Plain(id, needs, who, arrives, told, printable) ==
  [id |-> id, requires |-> needs, suspect |-> who, arrives |-> arrives, told |-> told,
   printable |-> printable]

Account(who, id, after, before, shown, hidden) ==
  [speaker |-> who, id |-> id, compiles |-> shown # hidden \/ who = ann, requires |-> after, excludes |-> before,
   shown |-> shown, hidden |-> hidden]

Healthy ==
  [file |-> "read", schema |-> TRUE, shaped |-> TRUE, engine |-> None, assets |-> TRUE,
   declared |-> {ann, bob, memo, call}, mentioned |-> {ann, memo},
   admissions |-> {<<ann, admits>>, <<ann, denies>>, <<bob, denies>>},
   chapters |-> <<[id |-> "a", prerequisites |-> {}], [id |-> "b", prerequisites |-> {"a"}]>>,
   exhibits |-> <<Plain(memo, {}, None, FALSE, TRUE, memo),
                  Plain(call, {memo}, ann, TRUE, FALSE, call)>>,
   layers |-> <<Account(ann, memo, {}, {admits}, {}, {call}),
                Account(ann, call, {admits}, {}, {call}, {})>>]

Choices(field) ==
  CASE field = "file"      -> {"read", "missing", "unreadable"}
    [] field = "mentioned" -> {{ann, memo}, {ann, nobody}}
    [] field = "exhibits"  ->
         {<<Healthy.exhibits[1], Plain(id, needs, who, arrives, told, page)>> :
            id \in {memo, call}, needs \in {{}, {memo}, {call}, {nobody}},
            who \in {None, ann, nobody}, arrives \in BOOLEAN, told \in BOOLEAN,
            page \in {None, memo}}
    [] field = "layers"    ->
         {<<Healthy.layers[1], Account(who, id, after, before, shown, hidden)>> :
            who \in {ann, bob}, id \in {memo, call}, after \in {{}, {admits}},
            before \in {{}, {admits}, {denies}}, shown \in {{}, {call}, {nobody}},
            hidden \in {{}, {call}}}
    [] OTHER               -> BOOLEAN

Fields == {"file", "schema", "shaped", "engine", "assets", "mentioned", "exhibits", "layers"}

Engines == {None} \cup
           [form : {"exact", "caret", "neither"}, of : {<<1, 0, 0>>, <<1, 0, 1>>, <<0, 9, 0>>, <<1, 1, 0>>, <<2, 0, 0>>}]

Spoilt == {[Healthy EXCEPT ![f] = x] : f \in {"exhibits"}, x \in Choices("exhibits")}
          \cup {[Healthy EXCEPT ![f] = x] : f \in {"layers"}, x \in Choices("layers")}
          \cup {[[Healthy EXCEPT ![f] = x] EXCEPT ![g] = y] :
                  f \in {"file"}, x \in Choices("file"), g \in {"mentioned"}, y \in Choices("mentioned")}
          \cup {[Healthy EXCEPT !.schema = p, !.shaped = q, !.engine = r, !.assets = s] :
                  p, q, s \in BOOLEAN, r \in Engines}

\* Names are only compared: the first chapter may as well be "a".
AllChapters == [id : {"a", "b", "c"}, prerequisites : SUBSET {"a", "b", "c"}]
WithGhost   == [id : {"a", "b"}, prerequisites : SUBSET {"a", "b", ghost}]

MCCases ==
  Spoilt \cup {[Healthy EXCEPT !.chapters = c] :
                 c \in {x \in [1 .. 3 -> AllChapters] : x[1].id = "a"} \cup [1 .. 2 -> WithGhost]}
MCNames == {"a", "b", "c", ghost}
=============================================================================

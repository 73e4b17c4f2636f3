---------------------------- MODULE AdviceProofs -----------------------------
(***************************************************************************)
(* Proofs about Advice, for any sets of names, portfolios, programs and    *)
(* requests, and any number of analyses.                                   *)
(*                                                                         *)
(* The argument has two halves.  What is stored only grows: a portfolio, a *)
(* program, a project's link and an analysis stay as they are once they    *)
(* are there (Grows), whichever request writes.  And AskOK says of each    *)
(* request that reads only what such growth leaves true: that what it was  *)
(* given belongs to its scope (InItsScope), that an advisor which had      *)
(* something to answer from when the question arrived has it already, or   *)
(* will find it by what is still to be read (Hopeful), and that the units  *)
(* the strategy advisor has listed agree with what it gathered (Units).    *)
(* So a request is right after the steps of the others (GrowthKeepsAsks),  *)
(* and there is one lemma for each step of its own.                        *)
(***************************************************************************)
EXTENDS Advice, FiniteSetTheorems, WellFoundedInduction, TLAPS

\* What holds of the rows, and of each request that writes some.
Filed(i) ==
    analyses[i].org = "own" =>
        /\ analyses[i].project = ProjectFor(analyses[i].typed)
        /\ projects[analyses[i].project] # NoRow

RowsInv ==
    /\ portfolios \subseteq Portfolios
    /\ programs \in [Programs -> portfolios \cup {NoRow}]
    /\ projects \in [Names -> Programs \cup {NoRow, Unlinked}]
    /\ \A n \in Linked : programs[projects[n]] # NoRow
    /\ analyses \in Seq(Analysis)
    /\ \A i \in DOMAIN analyses : Filed(i)

WriterOK(w) ==
    /\ work[w].step = "save" /\ work[w].found => projects[ProjectFor(work[w].name)] # NoRow
    /\ work[w].step \in {"parent", "insert"} => work[w].op \in {"portfolio", "program", "project"}
    /\ work[w].step = "insert" /\ work[w].op = "project" =>
          work[w].parent \in Programs /\ programs[work[w].parent] # NoRow
    /\ work[w].step = "insert" /\ work[w].op = "program" => work[w].parent \in portfolios
    /\ work[w].step \in {"parent", "insert"} /\ work[w].op = "program" => work[w].row \in Programs
    /\ work[w].step \in {"parent", "insert"} /\ work[w].op = "portfolio" => work[w].row \in Portfolios

WorkspaceInv ==
    /\ RowsInv
    /\ work \in [Writers -> WorkState]
    /\ \A w \in Writers : WriterOK(w)

-----------------------------------------------------------------------------
(* What holds of a request that reads, as a record a. *)

Turn(a) == Head(a.queue)

Gatherers == ByOrganization \cup {"portfolio_advisor"}

\* Items, for any number of analyses.
Evidence ==
    ({"analysis"} \X Nat \X Names)
    \cup ({"objective"} \X (Portfolios \cup Programs) \X {NoName})
    \cup ({"projectObjective"} \X Names \X {NoName})
    \cup ({"chunk"} \X Chunks \X {NoName})

Request ==
    [step: AskSteps, op: {"none", "advisor", "support"} \cup Views, scope: Scopes,
     name: Names \cup {Elsewhere}, queue: Seq(Advisors), todo: SUBSET (Names \X Kinds),
     listed: SUBSET Names, level: {"project", "program", "portfolio"},
     known: SUBSET Portfolios, left: SUBSET Portfolios, within: SUBSET Programs,
     live: SUBSET (Portfolios \cup Programs), got: SUBSET Evidence, context: SUBSET Chunks,
     had: SUBSET Advisors, ran: SUBSET Advisors, cited: SUBSET (Advisors \X Evidence),
     expected: SUBSET Advisors,
     outcome: {"none", "complete", "selectionEmpty", "collectionEmpty", "notFound", "conflict",
               "badGateway", "serverError"}]

\* The scopes under which an advisor is run.
Fits(advisor, type) ==
    /\ advisor \in ByProject => type # "portfolio"
    /\ advisor = "portfolio_advisor" => type = "portfolio"
    /\ advisor \in ByOrganization \cup ByDocuments => type = "organization"

Routed(a) ==
    /\ \A i \in DOMAIN a.queue : Fits(a.queue[i], a.scope.type)
    /\ a.step \in {"resolve", "read"} => a.op \in Views /\ a.queue = <<>> /\ a.cited = {}
    /\ a.step = "resolve" => a.op # "detail"
    /\ a.step = "read" /\ a.op = "detail" => a.scope.type = "organization"
    /\ a.step \in {"resolve", "read"} /\ a.scope.type = "name" => a.name = a.scope.id
    /\ a.step \in {"resolve", "read"} => a.scope.type # "portfolio"
    /\ a.step \in {"scope", "provision", "collect", "run"} /\ a.scope.type \in {"name", "project"}
          => a.name = a.scope.id
    /\ a.step \in {"provision", "collect", "run"} => a.queue # <<>>
    /\ a.step = "collect" => Turn(a) \in Gatherers
    /\ a.step # "answered" => a.outcome = "none"
    /\ a.context # {} => a.op = "advisor"

\* What is kept while one advisor's evidence is collected.
Fresh(a) ==
    /\ a.step \in {"idle", "resolve", "read", "scope", "provision", "conclude"} =>
          /\ a.got = {} /\ a.listed = {} /\ a.level = "project" /\ a.known = {} /\ a.live = {}
    /\ a.step \notin {"collect", "answered"} =>
          /\ a.todo = {} /\ a.left = {} /\ a.within = {}

\* An item within a declared scope; projects stay in their portfolio.
Belongs(scope, x) ==
    /\ x[1] # "analysis" => scope.type = "organization"
    /\ x[1] = "analysis" =>
         /\ x[2] \in DOMAIN analyses
         /\ InScope(scope, x)

InItsScope(a) == \A x \in a.got \cup {c[2] : c \in a.cited} : Belongs(a.scope, x)

Busied(a) == a.step \in {"collect", "run"} /\ Turn(a) \in Gatherers

\* Projects that were gathered, or are still to be, are linked ones.
Gathering(a) ==
    Busied(a) =>
        /\ \A c \in a.todo : c[1] \in Linked /\ (a.scope.type = "portfolio" => PortfolioOf(c[1]) = a.scope.id)
        /\ \A x \in a.got : x[1] = "analysis" => x[3] \in Linked
        /\ a.todo # {} => a.level = "project" \/ Turn(a) = "portfolio_advisor"
        /\ Turn(a) = "portfolio_advisor" =>
             /\ a.scope.id \in portfolios
             /\ a.level = "portfolio" /\ a.left = {} /\ a.within \subseteq ProgramsOf(a.scope.id)
        /\ Turn(a) \in {"pmo_advisor", "executive_advisor"} =>
             a.level = "project" /\ a.left = {} /\ a.within = {}

\* A call still to be made that will find something.
CallPending(a) == \E c \in a.todo : Recorded(c[1], c[2]) # {}

\* A program still to be listed that leads to such a call.
MemberPending(a) ==
    \E n \in Linked : projects[n] \in a.within /\ Recorded(n, "status") # {}

\* An objective still to be read.
ObjectivePending(a) ==
    \/ a.level = "project" /\ (\/ a.listed \cap DeclaringProjects # {}
                               \/ \E u \in Declaring : u \in portfolios
                               \/ \E u \in Declaring \cap Programs : programs[u] # NoRow)
    \/ a.level = "program" /\ (\/ \E u \in Declaring : u \in a.known
                               \/ \E u \in Declaring \cap Programs :
                                     programs[u] \in a.left \/ u \in a.within)
    \/ a.level = "portfolio" /\ \E u \in Declaring : u \in a.left

\* An advisor that had evidence on arrival will have some.
Hopeful(a) ==
    /\ a.step \in {"scope", "provision", "collect", "run"} =>
         \A i \in DOMAIN a.queue :
            a.queue[i] \in a.expected => HasEvidence(a.queue[i], a.scope, a.name)
    /\ a.step = "run" /\ Turn(a) \in a.expected => a.got # {}
    /\ a.step = "collect" /\ Turn(a) \in a.expected /\ a.got = {} =>
         \/ CallPending(a)
         \/ Turn(a) = "portfolio_advisor" /\ MemberPending(a)
         \/ Turn(a) = "strategy_advisor" /\ ObjectivePending(a)

Grounded(a) ==
    /\ a.ran \cap a.expected \subseteq a.had
    /\ a.outcome = "collectionEmpty" => a.ran \cap a.expected = {}
    /\ Sources(a.cited) \subseteq a.had

\* One of the program's projects was executed when they were gathered.
Executed(a, g) == \E x \in a.got : x[1] = "analysis" /\ projects[x[3]] = g

Units(a) ==
    Busied(a) /\ Turn(a) = "strategy_advisor" =>
        /\ a.step = "run" => a.level = "portfolio"
        /\ a.level = "project" => a.live = {} /\ a.left = {} /\ a.within = {} /\ a.known = {}
        /\ a.known \subseteq portfolios /\ a.left \subseteq a.known
        /\ \A g \in a.within : programs[g] \in a.known \ a.left
        /\ \A g \in a.live \cap Programs : Executed(a, g)
        /\ \A g \in Programs :
             Executed(a, g) /\ programs[g] \in a.known =>
                \/ g \in a.live
                \/ a.level = "program" /\ (programs[g] \in a.left \/ g \in a.within)
        /\ \A pf \in a.live \cap Portfolios :
             a.level = "portfolio" /\ \E g \in Programs : programs[g] = pf /\ Executed(a, g)
        /\ a.level = "portfolio" =>
             \A g \in Programs :
                Executed(a, g) /\ programs[g] \in a.known \ a.left =>
                   programs[g] \in a.live \/ g \in a.within

AskOK(a) ==
    /\ Routed(a)
    /\ Fresh(a)
    /\ InItsScope(a)
    /\ Gathering(a)
    /\ Hopeful(a)
    /\ Grounded(a)
    /\ Units(a)

AdviceInv ==
    /\ WorkspaceInv
    /\ ask \in [Readers -> Request]
    /\ \A q \in Readers : AskOK(ask[q])
-----------------------------------------------------------------------------
(* Lemmas about names, numbers and the selection rule. *)

\* The names there are.
LEMMA NameShapes ==
  ASSUME NEW n \in Names
  PROVE  \/ n = NoName
         \/ n = Fallback
         \/ \E k \in Keys, p \in BOOLEAN : n = <<k, p>> /\ k # "" /\ k # "(sem projeto)"
  <1>1. n \in Keys \X BOOLEAN \/ n = NoName \/ n = Fallback
    BY DEF Names, Typed, NoName
  <1>2. ASSUME n \in Keys \X BOOLEAN PROVE \E k \in Keys, p \in BOOLEAN : n = <<k, p>>
    BY <1>2
  <1> QED BY <1>1, <1>2, KeysAssumption

\* Blank names, stripped names and the project each name stands for.
LEMMA NameFacts ==
    /\ NoName \in Names /\ Blank(NoName)
    /\ Fallback \in Names /\ ~ Blank(Fallback) /\ Strip(Fallback) = Fallback
    /\ Blank(Elsewhere)
    /\ \A n \in Names : ProjectFor(n) \in Names /\ ~ Blank(ProjectFor(n))
    /\ \A n \in Names : ProjectFor(ProjectFor(n)) = ProjectFor(n)
    /\ \A n \in Names : ~ Blank(n) => Strip(n) \in Names /\ Strip(n) = ProjectFor(n)
  <1>1. NoName \in Names /\ Fallback \in Names
    BY DEF Names, Typed, NoName
  <1>2. /\ NoName[1] = "" /\ Elsewhere[1] = "" /\ Fallback[1] = "(sem projeto)"
        /\ Elsewhere[2] = FALSE /\ NoName # Fallback /\ Elsewhere # Fallback
    BY DEF NoName, Elsewhere, Fallback
  <1>3. Blank(NoName) /\ Blank(Elsewhere) /\ ~ Blank(Fallback)
    BY <1>2 DEF Blank
  <1>5. Strip(Fallback) = Fallback
    BY <1>2 DEF Strip, Fallback
  <1>6. ASSUME NEW n \in Names, ~ Blank(n)
        PROVE  /\ Strip(n) \in Names /\ ProjectFor(n) = Strip(n) /\ ~ Blank(Strip(n))
               /\ Strip(Strip(n)) = Strip(n)
    <2>1. ProjectFor(n) = Strip(n)
      BY <1>6 DEF ProjectFor
    <2>2. CASE n = Fallback
      BY <2>1, <2>2, <1>1, <1>3, <1>5
    <2>3. ASSUME NEW k \in Keys, NEW p \in BOOLEAN, n = <<k, p>>, k # ""
          PROVE  Strip(n) \in Names /\ ~ Blank(Strip(n)) /\ Strip(Strip(n)) = Strip(n)
      <3>1. n[1] = k
        BY <2>3
      <3>2. Strip(n) = <<k, FALSE>>
        BY <3>1 DEF Strip
      <3>3. <<k, FALSE>> \in Keys \X BOOLEAN /\ <<k, FALSE>>[1] = k
        OBVIOUS
      <3>4. Strip(Strip(n)) = <<k, FALSE>>
        BY <3>2, <3>3 DEF Strip
      <3>5. Strip(n) \in Names
        BY <3>2, <3>3 DEF Names, Typed
      <3>6. ~ Blank(Strip(n))
        BY <3>2, <3>3, <2>3 DEF Blank
      <3> QED BY <3>2, <3>4, <3>5, <3>6
    <2> QED BY <2>1, <2>2, <2>3, <1>3, <1>6, NameShapes
  <1>7. \A n \in Names : ProjectFor(n) \in Names /\ ~ Blank(ProjectFor(n))
    BY <1>1, <1>3, <1>6 DEF ProjectFor
  <1>8. ASSUME NEW n \in Names PROVE ProjectFor(ProjectFor(n)) = ProjectFor(n)
    <2>1. ProjectFor(Fallback) = Fallback
      BY <1>3, <1>5 DEF ProjectFor
    <2>2. CASE Blank(n)
      BY <2>1, <2>2 DEF ProjectFor
    <2>3. CASE ~ Blank(n)
      BY <2>3, <1>6 DEF ProjectFor
    <2> QED BY <2>2, <2>3
  <1> QED BY <1>1, <1>3, <1>5, <1>6, <1>7, <1>8

\* A set of numbers has a least element.
LEMMA LeastOf ==
  ASSUME NEW S \in SUBSET Nat, S # {}
  PROVE  \E x \in S : \A y \in S : x <= y
  <1> DEFINE R == OpToRel(<, Nat)
  <1>1. \A x, y \in Nat : x < y => <<x, y>> \in R
    BY DEF OpToRel
  <1>2. IsWellFoundedOn(R, Nat)
    BY NatLessThanWellFounded
  <1> HIDE DEF R
  <1>3. PICK x \in S : \A y \in S : <<y, x>> \notin R
    BY <1>2, WFMin
  <1>4. ASSUME NEW y \in S PROVE x <= y
    <2>1. x \in Nat /\ y \in Nat /\ ~ (y < x)
      BY <1>1, <1>3
    <2> QED BY <2>1
  <1> QED BY <1>4

\* And the highest one, when it is bounded.
LEMMA HighestOf ==
  ASSUME NEW bound \in Nat, NEW S \in SUBSET (0 .. bound), S # {}
  PROVE  \E x \in S : \A y \in S : y <= x
  <1> DEFINE T == {n \in 0 .. bound : bound - n \in S}
  <1>1. T \in SUBSET Nat /\ T # {}
    <2>1. PICK s \in S : TRUE
      OBVIOUS
    <2>2. bound - s \in 0 .. bound /\ bound - (bound - s) = s
      OBVIOUS
    <2>3. bound - s \in T
      BY <2>2
    <2>4. T \subseteq Nat
      OBVIOUS
    <2> QED BY <2>3, <2>4
  <1>2. PICK n \in T : \A m \in T : n <= m
    BY <1>1, LeastOf
  <1>3. bound - n \in S
    BY <1>2
  <1>4. ASSUME NEW y \in S PROVE y <= bound - n
    <2>1. bound - y \in 0 .. bound /\ bound - (bound - y) = y
      OBVIOUS
    <2>2. bound - y \in T
      BY <2>1
    <2>3. n <= bound - y /\ n \in 0 .. bound
      BY <1>2, <2>2
    <2> QED BY <2>3
  <1> QED BY <1>3, <1>4

\* The selection rule picks advisors of the catalog, each eligible under the
\* scope that was declared.
LEMMA SelectedFits ==
  ASSUME NEW matching, NEW type \in {"project", "portfolio", "organization"}
  PROVE  /\ Selected(matching, type) \in Seq(Advisors)
         /\ \A i \in DOMAIN Selected(matching, type) : Fits(Selected(matching, type)[i], type)
  <1> DEFINE ok(a) == a \in matching /\ MeetsPrecondition(a, type)
             Good == {a \in Advisors : Fits(a, type)}
             L == Len(Catalog)
             next(f, n) == IF n = 0 THEN <<>>
                           ELSE IF ok(Catalog[n]) THEN Append(f[n - 1], Catalog[n]) ELSE f[n - 1]
             upTo == CHOOSE f : f = [n \in 0 .. L |-> next(f, n)]
  <1>1. Selected(matching, type) = upTo[L]
    BY DEF Selected
  <1>2. L \in Nat /\ \A n \in 1 .. L : Catalog[n] \in Advisors
    BY CatalogAssumption
  <1>3. ASSUME NEW a \in Advisors, ok(a) PROVE a \in Good
    BY <1>3 DEF MeetsPrecondition, EligibleScopes, Fits, Advisors, ByProject, ByOrganization,
                ByDocuments
  <1> HIDE DEF L, ok, Good
  <1>4. \E f : f = [n \in 0 .. L |-> next(f, n)]
    <2> DEFINE Bad == {m \in 0 .. L : ~ \E f : f = [n \in 0 .. m |-> next(f, n)]}
    <2>1. CASE Bad # {}
      <3>1. PICK m \in Bad : \A k \in Bad : m <= k
        <4>1. Bad \in SUBSET Nat
          BY <1>2
        <4> HIDE DEF Bad
        <4> QED BY <2>1, <4>1, LeastOf
      <3>2. CASE m = 0
        <4> DEFINE g == [n \in 0 .. m |-> <<>>]
        <4>1. \A n \in 0 .. m : next(g, n) = <<>>
          BY <3>2
        <4>2. g = [n \in 0 .. m |-> next(g, n)]
          BY <4>1
        <4> QED BY <3>1, <4>2
      <3>3. CASE m # 0
        <4>0. m - 1 \in 0 .. L /\ m \in 0 .. L /\ ~ (m <= m - 1)
          BY <1>2, <3>1, <3>3
        <4>1. m - 1 \in 0 .. L /\ m - 1 \notin Bad /\ m \in 0 .. L
          BY <3>1, <4>0
        <4>2. PICK f : f = [n \in 0 .. m - 1 |-> next(f, n)]
          BY <4>1
        <4> DEFINE g == [n \in 0 .. m |-> next(f, n)]
        <4>3. \A n \in 0 .. m - 1 : g[n] = f[n]
          <5>1. \A n \in 0 .. m - 1 : n \in 0 .. m
            BY <4>1, <1>2
          <5>2. \A n \in 0 .. m - 1 : f[n] = next(f, n)
            BY <4>2
          <5> QED BY <5>1, <5>2
        <4>4. \A n \in 0 .. m : next(g, n) = next(f, n)
          <5> SUFFICES ASSUME NEW n \in 0 .. m PROVE next(g, n) = next(f, n)
            OBVIOUS
          <5>1. n = 0 \/ n - 1 \in 0 .. m - 1
            BY <4>1, <1>2
          <5> HIDE DEF g
          <5> QED BY <5>1, <4>3
        <4>5. g = [n \in 0 .. m |-> next(g, n)]
          BY <4>4
        <4> QED BY <3>1, <4>5
      <3> QED BY <3>2, <3>3
    <2>2. CASE Bad = {}
      <3>1. L \in 0 .. L
        BY <1>2
      <3>2. L \notin Bad
        <4> HIDE DEF Bad
        <4> QED BY <2>2
      <3> QED BY <3>1, <3>2
    <2> QED BY <2>1, <2>2
  <1>5. upTo = [n \in 0 .. L |-> next(upTo, n)]
    BY <1>4
  <1> HIDE DEF upTo
  <1>6. \A n \in 0 .. L : upTo[n] = next(upTo, n)
    BY <1>5
  <1>7. \A n \in 0 .. L : upTo[n] \in Seq(Good)
    <2> DEFINE Bad == {n \in 0 .. L : upTo[n] \notin Seq(Good)}
    <2>1. CASE Bad # {}
      <3>1. PICK m \in Bad : \A k \in Bad : m <= k
        <4>1. Bad \in SUBSET Nat
          BY <1>2
        <4> HIDE DEF Bad
        <4> QED BY <2>1, <4>1, LeastOf
      <3>2. CASE m = 0
        <4>1. upTo[0] = <<>>
          BY <1>6, <1>2
        <4>2. <<>> \in Seq(Good)
          OBVIOUS
        <4> QED BY <3>1, <3>2, <4>1, <4>2
      <3>3. CASE m # 0
        <4>1. m - 1 \in 0 .. L /\ m - 1 \notin Bad /\ m \in 1 .. L
          BY <1>2, <3>1, <3>3
        <4>2. upTo[m - 1] \in Seq(Good)
          BY <4>1
        <4>3. upTo[m] = IF ok(Catalog[m]) THEN Append(upTo[m - 1], Catalog[m]) ELSE upTo[m - 1]
          BY <4>1, <1>6
        <4>4. ok(Catalog[m]) => Catalog[m] \in Good
          BY <4>1, <1>2, <1>3
        <4>5. upTo[m] \in Seq(Good)
          BY <4>2, <4>3, <4>4
        <4> QED BY <4>5, <3>1
      <3> QED BY <3>2, <3>3
    <2>2. CASE Bad = {}
      BY <2>2
    <2> QED BY <2>1, <2>2
  <1>8. upTo[L] \in Seq(Good)
    BY <1>7, <1>2
  <1>9. ASSUME NEW s \in Seq(Good)
        PROVE  s \in Seq(Advisors) /\ \A i \in DOMAIN s : Fits(s[i], type)
    <2>1. DOMAIN s = 1 .. Len(s) /\ Len(s) \in Nat /\ \A i \in 1 .. Len(s) : s[i] \in Good
      OBVIOUS
    <2>2. \A i \in 1 .. Len(s) : s[i] \in Advisors /\ Fits(s[i], type)
      BY <2>1 DEF Good
    <2>3. s = [i \in 1 .. Len(s) |-> s[i]]
      OBVIOUS
    <2>4. s \in [1 .. Len(s) -> Advisors]
      BY <2>1, <2>2, <2>3
    <2>5. s \in Seq(Advisors)
      BY <2>1, <2>2, <2>3
    <2> QED BY <2>1, <2>2, <2>5
  <1> QED BY <1>1, <1>8, <1>9

-----------------------------------------------------------------------------
(* What is stored stays: no step removes a row or moves it elsewhere. *)

Grows ==
    /\ portfolios \subseteq portfolios'
    /\ \A g \in Programs : programs[g] # NoRow => programs'[g] = programs[g]
    /\ \A n \in Names : projects[n] # NoRow => projects'[n] # NoRow
    /\ \A n \in Names : projects[n] \in Programs => projects'[n] = projects[n]
    /\ \A i \in DOMAIN analyses : i \in DOMAIN analyses' /\ analyses'[i] = analyses[i]

\* Marks, steps and ids are told apart.
LEMMA WorkNames ==
    /\ \A s : s \in WorkSteps <=> s \in {"idle", "lookup", "save", "parent", "insert"}
    /\ Foreign \notin Portfolios /\ Foreign \notin Programs
    /\ NoRow \notin Portfolios /\ NoRow \notin Programs
    /\ Unlinked \notin Programs /\ NoRow # Unlinked
  BY ForeignAssumption, RowsAssumption DEF WorkSteps, NoRow, Unlinked

LEMMA RestingState ==
    /\ Resting \in WorkState
    /\ Resting.step = "idle" /\ Resting.op = "none"
  BY NameFacts DEF Resting, WorkState, WorkSteps, Kinds

\* The state of one writer changes.
LEMMA WorkBecomes ==
  ASSUME work \in [Writers -> WorkState], NEW w \in Writers, NEW n \in WorkState,
         work' = [work EXCEPT ![w] = n]
  PROVE  /\ work' \in [Writers -> WorkState]
         /\ work'[w] = n
         /\ \A v \in Writers : v # w => work'[v] = work[v]
  OBVIOUS

\* The rows are as they were, and one writer has another state.
LEMMA WriterMoves ==
  ASSUME WorkspaceInv, UNCHANGED rowVars,
         NEW w \in Writers, NEW n \in WorkState, work' = [work EXCEPT ![w] = n],
         n.step # "idle" =>
            /\ n.step = "save" /\ n.found => projects[ProjectFor(n.name)] # NoRow
            /\ n.step \in {"parent", "insert"} => n.op \in {"portfolio", "program", "project"}
            /\ n.step = "insert" /\ n.op = "project" =>
                  n.parent \in Programs /\ programs[n.parent] # NoRow
            /\ n.step = "insert" /\ n.op = "program" => n.parent \in portfolios
            /\ n.step \in {"parent", "insert"} /\ n.op = "program" => n.row \in Programs
            /\ n.step \in {"parent", "insert"} /\ n.op = "portfolio" => n.row \in Portfolios
  PROVE  WorkspaceInv' /\ Grows
  <1>1. /\ portfolios' = portfolios /\ programs' = programs /\ projects' = projects
        /\ analyses' = analyses
    BY DEF rowVars
  <1>2. /\ work' \in [Writers -> WorkState] /\ work'[w] = n
        /\ \A v \in Writers : v # w => work'[v] = work[v]
    BY WorkBecomes DEF WorkspaceInv
  <1>3. RowsInv'
    BY <1>1 DEF WorkspaceInv, RowsInv, Filed, Linked, ProjectFor, Blank, Strip, Fallback
  <1>4. ASSUME NEW v \in Writers PROVE WriterOK(v)'
    <2>1. CASE v # w
      BY <1>1, <1>2, <2>1 DEF WorkspaceInv, WriterOK
    <2>2. CASE v = w
      BY <1>1, <1>2, <2>2 DEF WriterOK
    <2> QED BY <2>1, <2>2
  <1>5. Grows
    BY <1>1 DEF Grows
  <1> QED BY <1>2, <1>3, <1>4, <1>5 DEF WorkspaceInv

LEMMA WriterFinishes ==
  ASSUME WorkspaceInv, UNCHANGED rowVars, NEW w \in Writers, Finish(w)
  PROVE  WorkspaceInv' /\ Grows
  BY RestingState, WriterMoves DEF Finish

\* A request that starts to write has written nothing.
LEMMA WriterBegins ==
  ASSUME WorkspaceInv, NEW w \in Writers, BeginSomeWork(w)
  PROVE  WorkspaceInv' /\ Grows
  <1>1. ASSUME NEW kind \in Kinds, NEW typed \in Names, BeginAnalysis(w, kind, typed)
        PROVE  WorkspaceInv' /\ Grows
    <2>1. PICK structured \in BOOLEAN :
             BeginWork(w, [Task("analysis", "lookup") EXCEPT !.kind = kind, !.name = typed,
                                                             !.structured = structured])
      BY <1>1 DEF BeginAnalysis
    <2> DEFINE n == [Task("analysis", "lookup") EXCEPT !.kind = kind, !.name = typed,
                                                       !.structured = structured]
    <2>2. n \in WorkState /\ n.step = "lookup"
      BY RestingState DEF Task, Resting, WorkState, WorkSteps
    <2>3. work' = [work EXCEPT ![w] = n] /\ UNCHANGED rowVars
      BY <2>1 DEF BeginWork
    <2> HIDE DEF n
    <2> QED BY <2>2, <2>3, WriterMoves
  <1>2. ASSUME NEW row \in Portfolios, BeginPortfolio(w, row)
        PROVE  WorkspaceInv' /\ Grows
    <2> DEFINE n == [Task("portfolio", "insert") EXCEPT !.row = row]
    <2>2. n \in WorkState /\ n.step = "insert" /\ n.op = "portfolio" /\ n.row = row
      BY RestingState DEF Task, Resting, WorkState, WorkSteps
    <2>3. work' = [work EXCEPT ![w] = n] /\ UNCHANGED rowVars
      BY <1>2 DEF BeginPortfolio, BeginWork
    <2> HIDE DEF n
    <2> QED BY <2>2, <2>3, WriterMoves
  <1>3. ASSUME NEW row \in Programs, NEW parent \in Portfolios \cup {Foreign},
               BeginProgram(w, row, parent)
        PROVE  WorkspaceInv' /\ Grows
    <2> DEFINE n == [Task("program", "parent") EXCEPT !.row = row, !.parent = parent]
    <2>2. n \in WorkState /\ n.step = "parent" /\ n.op = "program" /\ n.row = row
      BY RestingState DEF Task, Resting, WorkState, WorkSteps
    <2>3. work' = [work EXCEPT ![w] = n] /\ UNCHANGED rowVars
      BY <1>3 DEF BeginProgram, BeginWork
    <2> HIDE DEF n
    <2> QED BY <2>2, <2>3, WriterMoves
  <1>4. ASSUME NEW name \in Names, NEW parent \in Programs \cup {Foreign},
               BeginProject(w, name, parent)
        PROVE  WorkspaceInv' /\ Grows
    <2> DEFINE n == [Task("project", "parent") EXCEPT !.name = name, !.parent = parent]
    <2>2. n \in WorkState /\ n.step = "parent" /\ n.op = "project"
      BY RestingState DEF Task, Resting, WorkState, WorkSteps
    <2>3. work' = [work EXCEPT ![w] = n] /\ UNCHANGED rowVars
      BY <1>4 DEF BeginProject, BeginWork
    <2> HIDE DEF n
    <2> QED BY <2>2, <2>3, WriterMoves
  <1>5. ASSUME NEW d \in Documents PROVE d[1] \in Kinds /\ d[2] \in Names
    BY DocumentsAssumption, NamesAssumption
  <1>6. \A name \in StoredNames : name \in Names
    BY NamesAssumption
  <1> QED BY <1>1, <1>2, <1>3, <1>4, <1>5, <1>6 DEF BeginSomeWork

\* Writers that keep their state are fine as long as the rows only grow.
LEMMA OthersStayOK ==
  ASSUME WorkspaceInv, Grows, NEW v \in Writers, work'[v] = work[v]
  PROVE  WriterOK(v)'
  <1>1. work[v] \in WorkState
    BY DEF WorkspaceInv
  <1>2. ProjectFor(work[v].name) \in Names
    BY <1>1, NameFacts DEF WorkState
  <1>3. WriterOK(v)
    BY DEF WorkspaceInv
  <1>4. /\ work'[v].step = "save" /\ work'[v].found => projects'[ProjectFor(work'[v].name)] # NoRow
    BY <1>2, <1>3 DEF WriterOK, Grows
  <1>5. work'[v].step = "insert" /\ work'[v].op = "project" =>
          work'[v].parent \in Programs /\ programs'[work'[v].parent] # NoRow
    BY <1>3 DEF WriterOK, Grows
  <1>6. work'[v].step = "insert" /\ work'[v].op = "program" => work'[v].parent \in portfolios'
    BY <1>3 DEF WriterOK, Grows
  <1>7. /\ work'[v].step \in {"parent", "insert"} =>
             work'[v].op \in {"portfolio", "program", "project"}
        /\ work'[v].step \in {"parent", "insert"} /\ work'[v].op = "program" =>
             work'[v].row \in Programs
        /\ work'[v].step \in {"parent", "insert"} /\ work'[v].op = "portfolio" => work'[v].row \in Portfolios
    BY <1>3 DEF WriterOK
  <1> QED BY <1>4, <1>5, <1>6, <1>7 DEF WriterOK

\* A writer that has written ends, the others go on.
LEMMA WriterWrites ==
  ASSUME WorkspaceInv, Grows, RowsInv', NEW w \in Writers, Finish(w)
  PROVE  WorkspaceInv'
  <1>1. /\ work' \in [Writers -> WorkState] /\ work'[w] = Resting
        /\ \A v \in Writers : v # w => work'[v] = work[v]
    BY RestingState, WorkBecomes DEF WorkspaceInv, Finish
  <1>2. WriterOK(w)'
    BY <1>1, RestingState DEF WriterOK
  <1>3. \A v \in Writers : v # w => WriterOK(v)'
    BY <1>1, OthersStayOK
  <1> QED BY <1>1, <1>2, <1>3 DEF WorkspaceInv

\* The projects keep their references when one more has a row.
LEMMA ProjectRows ==
  ASSUME WorkspaceInv, NEW n \in Names, NEW value \in Programs \cup {Unlinked},
         value \in Programs => programs[value] # NoRow,
         projects[n] = NoRow \/ projects[n] = Unlinked,
         projects' = [projects EXCEPT ![n] = value],
         portfolios' = portfolios, programs' = programs
  PROVE  /\ projects' \in [Names -> Programs \cup {NoRow, Unlinked}]
         /\ \A m \in Linked' : programs'[projects'[m]] # NoRow
         /\ \A m \in Names : projects[m] # NoRow => projects'[m] # NoRow
         /\ \A m \in Names : projects[m] \in Programs => projects'[m] = projects[m]
         /\ projects'[n] # NoRow
  <1>1. projects \in [Names -> Programs \cup {NoRow, Unlinked}]
    BY DEF WorkspaceInv, RowsInv
  <1>2. projects' \in [Names -> Programs \cup {NoRow, Unlinked}]
    BY <1>1
  <1>3. projects'[n] = value /\ \A m \in Names : m # n => projects'[m] = projects[m]
    BY <1>1
  <1>4. value # NoRow
    BY WorkNames
  <1>5. \A m \in Names : projects[m] # NoRow => projects'[m] # NoRow
    BY <1>3, <1>4
  <1>6. \A m \in Names : projects[m] \in Programs => projects'[m] = projects[m]
    BY <1>3, WorkNames
  <1>7. \A m \in Linked' : programs'[projects'[m]] # NoRow
    BY <1>3 DEF Linked, WorkspaceInv, RowsInv
  <1> QED BY <1>2, <1>3, <1>4, <1>5, <1>6, <1>7

\* The steps that write.
LEMMA AnalysisSaved ==
  ASSUME WorkspaceInv, NEW w \in Writers, SaveAnalysis(w)
  PROVE  WorkspaceInv' /\ Grows
  <1> DEFINE q == work[w]
             project == ProjectFor(q.name)
             row == [org |-> "own", project |-> project, kind |-> q.kind,
                     structured |-> q.structured, typed |-> q.name]
  <1>1. /\ q.step = "save" /\ (q.found \/ projects[project] = NoRow)
        /\ projects' = IF q.found THEN projects ELSE [projects EXCEPT ![project] = Unlinked]
        /\ analyses' = Append(analyses, row)
        /\ Finish(w) /\ portfolios' = portfolios /\ programs' = programs
    BY DEF SaveAnalysis, WorkAt
  <1>2. q \in WorkState /\ WriterOK(w)
    BY DEF WorkspaceInv
  <1>3. q.name \in Names /\ project \in Names /\ q.kind \in Kinds /\ q.structured \in BOOLEAN
    BY <1>2, NameFacts DEF WorkState
  <1>4. row \in Analysis
    BY <1>3 DEF Analysis
  <1>5. row.org = "own" /\ row.project = project /\ row.typed = q.name
    OBVIOUS
  <1>6. /\ projects' \in [Names -> Programs \cup {NoRow, Unlinked}]
        /\ \A m \in Linked' : programs'[projects'[m]] # NoRow
        /\ \A m \in Names : projects[m] # NoRow => projects'[m] # NoRow
        /\ \A m \in Names : projects[m] \in Programs => projects'[m] = projects[m]
        /\ projects'[project] # NoRow
    <2>1. CASE q.found
      BY <1>1, <1>2, <2>1 DEF WorkspaceInv, RowsInv, Linked, WriterOK
    <2>2. CASE ~ q.found
      BY <1>1, <1>3, <2>2, ProjectRows, WorkNames
    <2> QED BY <2>1, <2>2
  <1>7. analyses \in Seq(Analysis)
    BY DEF WorkspaceInv, RowsInv
  <1> HIDE DEF row, q
  <1>8. /\ analyses' \in Seq(Analysis)
        /\ DOMAIN analyses' = DOMAIN analyses \cup {Len(analyses) + 1}
        /\ \A i \in DOMAIN analyses : analyses'[i] = analyses[i]
        /\ analyses'[Len(analyses) + 1] = row
    BY <1>1, <1>4, <1>7
  <1>9. Grows
    BY <1>1, <1>6, <1>8 DEF Grows
  <1>10. ASSUME NEW i \in DOMAIN analyses' PROVE Filed(i)'
    <2>1. CASE i \in DOMAIN analyses
      <3>0. analyses[i] \in Analysis
        BY <1>7, <2>1
      <3>1. Filed(i) /\ analyses[i].project \in Names
        BY <3>0, <2>1 DEF WorkspaceInv, RowsInv, Analysis
      <3> QED BY <3>1, <2>1, <1>8, <1>6 DEF Filed
    <2>2. CASE i = Len(analyses) + 1
      BY <2>2, <1>8, <1>5, <1>6 DEF Filed
    <2> QED BY <2>1, <2>2, <1>8
  <1>11. RowsInv'
    BY <1>1, <1>6, <1>8, <1>10 DEF WorkspaceInv, RowsInv
  <1> QED BY <1>1, <1>9, <1>11, WriterWrites

LEMMA PortfolioInserted ==
  ASSUME WorkspaceInv, NEW w \in Writers, InsertPortfolio(w)
  PROVE  WorkspaceInv' /\ Grows
  <1>1. /\ work[w].step = "insert" /\ work[w].op = "portfolio" /\ Finish(w)
        /\ portfolios' = portfolios \cup {work[w].row}
        /\ programs' = programs /\ projects' = projects /\ analyses' = analyses
    BY DEF InsertPortfolio, WorkAt
  <1>2. work[w].row \in Portfolios
    BY <1>1 DEF WorkspaceInv, WriterOK
  <1>3. RowsInv'
    BY <1>1, <1>2 DEF WorkspaceInv, RowsInv, Linked, Filed
  <1>4. Grows
    BY <1>1 DEF Grows
  <1> QED BY <1>1, <1>3, <1>4, WriterWrites

LEMMA ProgramInserted ==
  ASSUME WorkspaceInv, NEW w \in Writers, InsertProgram(w)
  PROVE  WorkspaceInv' /\ Grows
  <1>1. /\ work[w].step = "insert" /\ work[w].op = "program" /\ Finish(w)
        /\ ~ Taken(work[w]) /\ programs' = [programs EXCEPT ![work[w].row] = work[w].parent]
        /\ portfolios' = portfolios /\ projects' = projects /\ analyses' = analyses
    BY DEF InsertProgram, WorkAt
  <1>2. /\ work[w].row \in Programs /\ work[w].parent \in portfolios
        /\ programs[work[w].row] = NoRow
    BY <1>1 DEF WorkspaceInv, WriterOK, Taken
  <1>3. programs \in [Programs -> portfolios \cup {NoRow}]
    BY DEF WorkspaceInv, RowsInv
  <1>4. /\ programs' \in [Programs -> portfolios \cup {NoRow}]
        /\ \A g \in Programs : programs[g] # NoRow => programs'[g] = programs[g]
    BY <1>1, <1>2, <1>3
  <1>5. RowsInv'
    BY <1>1, <1>4 DEF WorkspaceInv, RowsInv, Linked, Filed
  <1>6. Grows
    BY <1>1, <1>4 DEF Grows
  <1> QED BY <1>1, <1>5, <1>6, WriterWrites

\* A project gets its row, or the program it did not have.
LEMMA ProjectLinked ==
  ASSUME WorkspaceInv, NEW n \in Names, NEW g \in Programs, programs[g] # NoRow,
         projects[n] = NoRow \/ projects[n] = Unlinked,
         projects' = [projects EXCEPT ![n] = g], UNCHANGED <<portfolios, programs, analyses>>
  PROVE  RowsInv' /\ Grows
  <1>1. portfolios' = portfolios /\ programs' = programs /\ analyses' = analyses
    OBVIOUS
  <1>2. /\ projects' \in [Names -> Programs \cup {NoRow, Unlinked}]
        /\ \A m \in Linked' : programs'[projects'[m]] # NoRow
        /\ \A m \in Names : projects[m] # NoRow => projects'[m] # NoRow
        /\ \A m \in Names : projects[m] \in Programs => projects'[m] = projects[m]
    BY ProjectRows
  <1>3. ASSUME NEW i \in DOMAIN analyses' PROVE Filed(i)'
    <2>0. analyses[i] \in Analysis
      BY <1>1 DEF WorkspaceInv, RowsInv
    <2>1. Filed(i) /\ analyses[i].project \in Names
      BY <1>1, <2>0 DEF WorkspaceInv, RowsInv, Analysis
    <2> QED BY <2>1, <1>1, <1>2 DEF Filed
  <1>4. RowsInv'
    BY <1>1, <1>2, <1>3 DEF WorkspaceInv, RowsInv
  <1> QED BY <1>1, <1>2, <1>4 DEF Grows

LEMMA ProjectInserted ==
  ASSUME WorkspaceInv, NEW w \in Writers, InsertProject(w)
  PROVE  WorkspaceInv' /\ Grows
  <1>1. /\ work[w].step = "insert" /\ work[w].op = "project" /\ Finish(w)
        /\ ~ Taken(work[w]) /\ projects' = [projects EXCEPT ![work[w].name] = work[w].parent]
        /\ UNCHANGED <<portfolios, programs, analyses>>
    BY DEF InsertProject, WorkAt
  <1>2. /\ work[w].parent \in Programs /\ programs[work[w].parent] # NoRow
        /\ projects[work[w].name] = NoRow /\ work[w].name \in Names
    BY <1>1 DEF WorkspaceInv, WriterOK, Taken, WorkState
  <1> QED BY <1>1, <1>2, ProjectLinked, WriterWrites

LEMMA ProjectAttached ==
  ASSUME WorkspaceInv, NEW name \in Names, NEW g \in Programs, AttachProject(name, g)
  PROVE  WorkspaceInv' /\ Grows
  <1>1. RowsInv' /\ Grows /\ work' = work
    BY ProjectLinked DEF AttachProject
  <1>2. \A v \in Writers : WriterOK(v)'
    BY <1>1, OthersStayOK
  <1> QED BY <1>1, <1>2 DEF WorkspaceInv

\* Every step of a request that writes.
LEMMA WriterContinues ==
  ASSUME WorkspaceInv, NEW w \in Writers, ContinueWork(w)
  PROVE  WorkspaceInv' /\ Grows
  <1>0. work[w] \in WorkState /\ WriterOK(w)
    BY DEF WorkspaceInv
  <1>1. CASE LookupProject(w)
    <2> DEFINE n == [work[w] EXCEPT !.step = "save",
                                    !.found = (projects[ProjectFor(work[w].name)] # NoRow)]
    <2>1. work' = [work EXCEPT ![w] = n] /\ UNCHANGED rowVars
      BY <1>1 DEF LookupProject, WorkspaceInv
    <2>2. n \in WorkState
      BY <1>0 DEF WorkState, WorkSteps
    <2>3. n.step = "save" /\ n.name = work[w].name
      BY <1>0 DEF WorkState
    <2>4. n.found = (projects[ProjectFor(work[w].name)] # NoRow)
      BY <1>0 DEF WorkState
    <2> HIDE DEF n
    <2> QED BY <2>1, <2>2, <2>3, <2>4, WriterMoves
  <1>2. CASE SaveAnalysis(w)
    BY <1>2, AnalysisSaved
  <1>3. CASE LoseAnalysis(w) \/ RejectInsert(w) \/ FailWork(w)
    BY <1>3, WriterFinishes DEF LoseAnalysis, RejectInsert, FailWork
  <1>4. CASE CheckParent(w)
    <2> DEFINE n == [work[w] EXCEPT !.step = "insert"]
               mine == IF work[w].op = "program" THEN work[w].parent \in portfolios
                       ELSE work[w].parent \in Programs /\ programs[work[w].parent] # NoRow
    <2>0. /\ work[w].step = "parent" /\ UNCHANGED rowVars
          /\ IF mine THEN WorkGoto(w, "insert") ELSE Finish(w)
      BY <1>4 DEF CheckParent, WorkAt
    <2>1. CASE mine
      <3>2. work' = [work EXCEPT ![w] = n]
        BY <2>0, <2>1 DEF WorkGoto, WorkspaceInv
      <3>3. n \in WorkState
        BY <1>0 DEF WorkState, WorkSteps
      <3>4. /\ n.step = "insert" /\ n.op = work[w].op /\ n.parent = work[w].parent
            /\ n.row = work[w].row
        BY <1>0 DEF WorkState
      <3> HIDE DEF n
      <3>5. /\ n.op = "program" => n.row \in Programs
            /\ n.op = "portfolio" => n.row \in Portfolios
            /\ n.op \in {"portfolio", "program", "project"}
        BY <2>0, <3>4, <1>0 DEF WriterOK
      <3>6. /\ n.op = "program" => n.parent \in portfolios
            /\ n.op = "project" => n.parent \in Programs /\ programs[n.parent] # NoRow
        BY <2>1, <3>4
      <3> QED BY <2>0, <3>2, <3>3, <3>4, <3>5, <3>6, WriterMoves
    <2>2. CASE ~ mine
      BY <2>0, <2>2, WriterFinishes
    <2> QED BY <2>1, <2>2
  <1>5. CASE InsertPortfolio(w) \/ InsertProgram(w) \/ InsertProject(w)
    BY <1>5, PortfolioInserted, ProgramInserted, ProjectInserted
  <1> QED BY <1>1, <1>2, <1>3, <1>4, <1>5 DEF ContinueWork

LEMMA WorkspaceInitially == WorkspaceInit => WorkspaceInv
  <1> SUFFICES ASSUME WorkspaceInit PROVE WorkspaceInv
    OBVIOUS
  <1>1. PICK k \in Keys :
          analyses = << [org |-> "other", project |-> <<k, FALSE>>, kind |-> "risk",
                         structured |-> TRUE, typed |-> <<k, FALSE>>] >>
    BY DEF WorkspaceInit
  <1> DEFINE row == [org |-> "other", project |-> <<k, FALSE>>, kind |-> "risk",
                     structured |-> TRUE, typed |-> <<k, FALSE>>]
  <1>2. <<k, FALSE>> \in Names
    BY DEF Names, Typed
  <1>3. row \in Analysis /\ row.org # "own"
    BY <1>2 DEF Analysis, Kinds
  <1> HIDE DEF row
  <1>4. analyses = <<row>>
    BY <1>1 DEF row
  <1>5. analyses \in Seq(Analysis) /\ \A i \in DOMAIN analyses : Filed(i)
    BY <1>3, <1>4 DEF Filed
  <1>6. RowsInv
    BY <1>5, WorkNames DEF RowsInv, WorkspaceInit, Linked
  <1>7. work \in [Writers -> WorkState] /\ \A w \in Writers : WriterOK(w)
    BY RestingState DEF WorkspaceInit, WriterOK
  <1> QED BY <1>6, <1>7 DEF WorkspaceInv

-----------------------------------------------------------------------------
(* What a request has found out stays true while others write. *)

LEMMA RowTypes ==
  ASSUME RowsInv
  PROVE  /\ \A i \in DOMAIN analyses :
              /\ i \in Nat /\ i <= Len(analyses) /\ analyses[i] \in Analysis
              /\ analyses[i].project \in Names /\ analyses[i].typed \in Names
         /\ Len(analyses) \in Nat
         /\ \A n \in Linked : n \in Names /\ projects[n] \in Programs /\ PortfolioOf(n) \in portfolios
  <1>1. analyses \in Seq(Analysis)
    BY DEF RowsInv
  <1>2. Len(analyses) \in Nat /\ DOMAIN analyses = 1 .. Len(analyses)
        /\ \A i \in DOMAIN analyses : analyses[i] \in Analysis
    BY <1>1
  <1>3. \A row \in Analysis : row.project \in Names /\ row.typed \in Names
    BY DEF Analysis
  <1>4. \A i \in DOMAIN analyses : i \in Nat /\ i <= Len(analyses)
    BY <1>2
  <1>5. ASSUME NEW n \in Linked
        PROVE  n \in Names /\ projects[n] \in Programs /\ PortfolioOf(n) \in portfolios
    BY DEF RowsInv, Linked, PortfolioOf
  <1> QED BY <1>2, <1>3, <1>4, <1>5

\* A project's program and portfolio are for good.
LEMMA LinkedStay ==
  ASSUME RowsInv, Grows, NEW n \in Linked
  PROVE  n \in Linked' /\ projects'[n] = projects[n] /\ PortfolioOf(n)' = PortfolioOf(n)
  BY DEF RowsInv, Grows, Linked, PortfolioOf

LEMMA RecordedGrows ==
  ASSUME RowsInv, Grows, NEW name, NEW kind
  PROVE  Recorded(name, kind) \subseteq Recorded(name, kind)'
  <1>1. \A i \in DOMAIN analyses : i \in DOMAIN analyses' /\ analyses'[i] = analyses[i]
    BY DEF Grows
  <1> QED BY <1>1 DEF Recorded, ProjectFor, Blank, Strip, Fallback

\* The projects an advisor's evidence is about.
TargetsOf(advisor, scope, name) ==
    CASE advisor \in ByProject -> {name}
      [] advisor = "portfolio_advisor" -> {n \in Linked : PortfolioOf(n) = scope.id}
      [] OTHER -> Linked

\* How each advisor is provisioned, and what it reads.
LEMMA AdvisorKinds ==
  ASSUME NEW advisor \in Advisors
  PROVE  /\ advisor \in ByProject => advisor \notin Gatherers /\ advisor \notin ByDocuments
         /\ advisor \in ByDocuments => advisor \notin Gatherers
         /\ advisor = "portfolio_advisor" => advisor \notin ByOrganization
         /\ advisor \in ByProject \/ advisor \in Gatherers \/ advisor \in ByDocuments
         /\ advisor \in Gatherers => advisor \in ByOrganization \/ advisor = "portfolio_advisor"
         /\ advisor \in ByDocuments => KindsOf(advisor) = {}
         /\ advisor \in ByProject \cup ByDocuments =>
              advisor \notin {"portfolio_advisor", "pmo_advisor", "executive_advisor",
                              "strategy_advisor"}
         /\ advisor = "portfolio_advisor" => KindsOf(advisor) = {"status"}
         /\ KindsOf(advisor) \subseteq Kinds
         /\ ByOrganization = {"pmo_advisor", "executive_advisor", "strategy_advisor"}
  BY DEF Advisors, ByProject, ByOrganization, ByDocuments, Gatherers, KindsOf, Kinds

\* HasEvidence by the way the advisor is provisioned.
LEMMA EvidenceShape ==
  ASSUME NEW advisor \in Advisors, NEW scope, NEW name
  PROVE  HasEvidence(advisor, scope, name) <=>
           \/ \E n \in TargetsOf(advisor, scope, name), kind \in KindsOf(advisor) :
                 Recorded(n, kind) # {}
           \/ /\ advisor = "strategy_advisor"
              /\ \/ Linked \cap DeclaringProjects # {}
                 \/ \E u \in Declaring : u \in portfolios
                 \/ \E u \in Declaring \cap Programs : programs[u] # NoRow
  BY DEF HasEvidence, TargetsOf

LEMMA TargetsShape ==
  ASSUME NEW advisor \in Advisors, NEW scope, NEW name
  PROVE  /\ advisor \in ByProject => TargetsOf(advisor, scope, name) = {name}
         /\ advisor = "portfolio_advisor" =>
              TargetsOf(advisor, scope, name) = {n \in Linked : PortfolioOf(n) = scope.id}
         /\ advisor \notin ByProject \cup {"portfolio_advisor"} =>
              TargetsOf(advisor, scope, name) = Linked
  BY DEF TargetsOf, ByProject

\* Evidence that was there on arrival is there later.
LEMMA EvidenceStays ==
  ASSUME RowsInv, Grows, NEW advisor \in Advisors, NEW scope, NEW name,
         HasEvidence(advisor, scope, name)
  PROVE  HasEvidence(advisor, scope, name)'
  <1>1. CASE \E n \in TargetsOf(advisor, scope, name), kind \in KindsOf(advisor) :
                Recorded(n, kind) # {}
    <2>1. PICK n \in TargetsOf(advisor, scope, name), kind \in KindsOf(advisor) :
                Recorded(n, kind) # {}
      BY <1>1
    <2>2. n \in TargetsOf(advisor, scope, name)'
      BY <2>1, LinkedStay DEF TargetsOf
    <2>3. (Recorded(n, kind) # {})'
      BY <2>1, RecordedGrows
    <2>4. \E m \in TargetsOf(advisor, scope, name)', k \in KindsOf(advisor) :
                Recorded(m, k)' # {}
      BY <2>2, <2>3
    <2> QED BY <2>4 DEF HasEvidence, TargetsOf
  <1>2. CASE /\ advisor = "strategy_advisor"
             /\ \/ Linked \cap DeclaringProjects # {}
                \/ \E u \in Declaring : u \in portfolios
                \/ \E u \in Declaring \cap Programs : programs[u] # NoRow
    <2>1. /\ advisor = "strategy_advisor"
          /\ \/ Linked' \cap DeclaringProjects # {}
             \/ \E u \in Declaring : u \in portfolios'
             \/ \E u \in Declaring \cap Programs : programs'[u] # NoRow
      BY <1>2, LinkedStay DEF Grows
    <2> QED BY <2>1 DEF HasEvidence
  <1> QED BY <1>1, <1>2, EvidenceShape

\* The parts of AskOK that look at the rows, after another request's step.
LEMMA GrowthKeepsBelonging ==
  ASSUME RowsInv, Grows, NEW scope, NEW x, Belongs(scope, x)
  PROVE  Belongs(scope, x)'
  <1>1. CASE x[1] # "analysis"
    BY <1>1 DEF Belongs
  <1>2. CASE x[1] = "analysis"
    <2>1. x[2] \in DOMAIN analyses /\ InScope(scope, x)
          /\ (scope.type = "portfolio" => x[3] \in Linked /\ PortfolioOf(x[3]) = scope.id)
      BY <1>2 DEF Belongs, InScope
    <2>2. x[2] \in DOMAIN analyses' /\ analyses'[x[2]] = analyses[x[2]]
      BY <2>1 DEF Grows
    <2>3. scope.type = "portfolio" => x[3] \in Linked' /\ PortfolioOf(x[3])' = scope.id
      BY <2>1, LinkedStay
    <2>4. InScope(scope, x)'
      BY <1>2, <2>1, <2>2, <2>3 DEF InScope, ProjectFor, Blank, Strip, Fallback
    <2> QED BY <1>2, <2>2, <2>3, <2>4 DEF Belongs
  <1> QED BY <1>1, <1>2

LEMMA GrowthKeepsGathering ==
  ASSUME RowsInv, Grows, NEW a, Gathering(a)
  PROVE  Gathering(a)'
  <1> SUFFICES ASSUME Busied(a) PROVE Gathering(a)'
    BY DEF Gathering, Busied, Turn, Gatherers, ByOrganization
  <1>1. /\ \A c \in a.todo : c[1] \in Linked /\ (a.scope.type = "portfolio" => PortfolioOf(c[1]) = a.scope.id)
        /\ \A x \in a.got : x[1] = "analysis" => x[3] \in Linked
        /\ a.todo # {} => a.level = "project" \/ Turn(a) = "portfolio_advisor"
        /\ Turn(a) = "portfolio_advisor" =>
             /\ a.scope.id \in portfolios
             /\ a.level = "portfolio" /\ a.left = {} /\ a.within \subseteq ProgramsOf(a.scope.id)
        /\ Turn(a) \in {"pmo_advisor", "executive_advisor"} =>
             a.level = "project" /\ a.left = {} /\ a.within = {}
    BY DEF Gathering
  <1>2. /\ \A c \in a.todo :
             c[1] \in Linked' /\ (a.scope.type = "portfolio" => PortfolioOf(c[1])' = a.scope.id)
        /\ \A x \in a.got : x[1] = "analysis" => x[3] \in Linked'
    BY <1>1, LinkedStay
  <1>3. Turn(a) = "portfolio_advisor" =>
          a.scope.id \in portfolios' /\ a.within \subseteq ProgramsOf(a.scope.id)'
    <2> SUFFICES ASSUME Turn(a) = "portfolio_advisor"
                 PROVE  a.scope.id \in portfolios' /\ a.within \subseteq ProgramsOf(a.scope.id)'
      OBVIOUS
    <2>1. a.scope.id # NoRow
      BY <1>1, WorkNames DEF RowsInv
    <2>2. \A g \in a.within : g \in Programs /\ programs[g] = a.scope.id
      BY <1>1 DEF ProgramsOf
    <2>3. \A g \in a.within : programs'[g] = a.scope.id
      BY <2>1, <2>2 DEF Grows
    <2> QED BY <1>1, <2>2, <2>3 DEF ProgramsOf, Grows
  <1> QED BY <1>1, <1>2, <1>3 DEF Gathering, Busied, Turn

LEMMA GrowthKeepsHopes ==
  ASSUME RowsInv, Grows, NEW a \in Request, Hopeful(a)
  PROVE  Hopeful(a)'
  <1>1. \A i \in DOMAIN a.queue : a.queue[i] \in Advisors
    BY DEF Request
  <1>2. a.step \in {"scope", "provision", "collect", "run"} =>
          \A i \in DOMAIN a.queue :
             a.queue[i] \in a.expected => HasEvidence(a.queue[i], a.scope, a.name)'
    BY <1>1, EvidenceStays DEF Hopeful
  <1>3. CallPending(a) => CallPending(a)'
    <2> SUFFICES ASSUME CallPending(a) PROVE CallPending(a)'
      OBVIOUS
    <2>1. PICK c \in a.todo : Recorded(c[1], c[2]) # {}
      BY DEF CallPending
    <2>2. Recorded(c[1], c[2])' # {}
      BY <2>1, RecordedGrows
    <2> QED BY <2>1, <2>2 DEF CallPending
  <1>4. MemberPending(a) => MemberPending(a)'
    <2> SUFFICES ASSUME MemberPending(a) PROVE MemberPending(a)'
      OBVIOUS
    <2>1. PICK n \in Linked : projects[n] \in a.within /\ Recorded(n, "status") # {}
      BY DEF MemberPending
    <2>2. Recorded(n, "status")' # {} /\ n \in Linked' /\ projects'[n] \in a.within
      BY <2>1, RecordedGrows, LinkedStay
    <2> QED BY <2>1, <2>2 DEF MemberPending
  <1>5. ObjectivePending(a) => ObjectivePending(a)'
    <2>1. \A u \in Programs : programs[u] \in a.left => programs[u] # NoRow
      BY WorkNames DEF Request
    <2>2. \A u \in Programs : programs[u] # NoRow => programs'[u] = programs[u]
      BY DEF Grows
    <2>3. portfolios \subseteq portfolios'
      BY DEF Grows
    <2> QED BY <2>1, <2>2, <2>3 DEF ObjectivePending
  <1> QED BY <1>2, <1>3, <1>4, <1>5 DEF Hopeful, Turn

LEMMA GrowthKeepsUnits ==
  ASSUME RowsInv, RowsInv', Grows, NEW a \in Request, Gathering(a), Units(a)
  PROVE  Units(a)'
  <1> SUFFICES ASSUME Busied(a), Turn(a) = "strategy_advisor" PROVE Units(a)'
    BY DEF Units, Busied, Turn, Gatherers, ByOrganization
  <1>1. \A x \in a.got : x[1] = "analysis" => x[3] \in Linked
    BY DEF Gathering
  <1>2. \A x \in a.got : x[1] = "analysis" => projects'[x[3]] = projects[x[3]]
    BY <1>1, LinkedStay
  <1>3. \A g : Executed(a, g) <=> Executed(a, g)'
    BY <1>2 DEF Executed
  <1>4. ASSUME NEW g \in Programs, Executed(a, g) PROVE programs[g] # NoRow
    <2>1. PICK x \in a.got : x[1] = "analysis" /\ projects[x[3]] = g
      BY <1>4 DEF Executed
    <2> QED BY <2>1, <1>1 DEF RowsInv
  <1>5. ASSUME NEW g \in Programs, programs[g] # NoRow PROVE programs'[g] = programs[g]
    BY <1>5 DEF Grows
  <1>6. /\ a.level = "project" => a.live = {} /\ a.left = {} /\ a.within = {} /\ a.known = {}
        /\ a.known \subseteq portfolios /\ a.left \subseteq a.known
        /\ \A g \in a.within : programs[g] \in a.known \ a.left
        /\ \A g \in a.live \cap Programs : Executed(a, g)
        /\ \A g \in Programs :
             Executed(a, g) /\ programs[g] \in a.known =>
                \/ g \in a.live
                \/ a.level = "program" /\ (programs[g] \in a.left \/ g \in a.within)
        /\ \A pf \in a.live \cap Portfolios :
             a.level = "portfolio" /\ \E g \in Programs : programs[g] = pf /\ Executed(a, g)
        /\ a.level = "portfolio" =>
             \A g \in Programs :
                Executed(a, g) /\ programs[g] \in a.known \ a.left =>
                   programs[g] \in a.live \/ g \in a.within
    BY DEF Units
  <1>7. a.known \subseteq portfolios'
    BY <1>6 DEF Grows
  <1>8. \A g \in a.within : programs'[g] \in a.known \ a.left
    BY <1>5, <1>6, WorkNames DEF Request
  <1>9. \A g \in Programs : Executed(a, g) => programs'[g] = programs[g]
    BY <1>4, <1>5
  <1>10. \A pf \in a.live \cap Portfolios :
           a.level = "portfolio" /\ \E g \in Programs : programs'[g] = pf /\ Executed(a, g)'
    BY <1>3, <1>6, <1>9
  <1>11. \A g \in Programs :
             Executed(a, g)' /\ programs'[g] \in a.known =>
                \/ g \in a.live
                \/ a.level = "program" /\ (programs'[g] \in a.left \/ g \in a.within)
    BY <1>3, <1>6, <1>9
  <1>12. a.level = "portfolio" =>
             \A g \in Programs :
                Executed(a, g)' /\ programs'[g] \in a.known \ a.left =>
                   programs'[g] \in a.live \/ g \in a.within
    BY <1>3, <1>6, <1>9
  <1>13. \A g \in a.live \cap Programs : Executed(a, g)'
    BY <1>3, <1>6
  <1> QED BY <1>6, <1>7, <1>8, <1>10, <1>11, <1>12, <1>13 DEF Units

\* Requests that wait are as right after the step as before it.
LEMMA GrowthKeepsAsks ==
  ASSUME RowsInv, RowsInv', Grows, NEW a \in Request, AskOK(a)
  PROVE  AskOK(a)'
  <1>1. Routed(a)' /\ Fresh(a)' /\ Grounded(a)'
    BY DEF AskOK, Routed, Fresh, Grounded, Fits, Turn, Gatherers, ByProject, ByOrganization,
           ByDocuments, Sources, Views
  <1>2. InItsScope(a)'
    BY GrowthKeepsBelonging DEF AskOK, InItsScope
  <1>3. Gathering(a)' /\ Hopeful(a)' /\ Units(a)'
    BY GrowthKeepsGathering, GrowthKeepsHopes, GrowthKeepsUnits DEF AskOK
  <1> QED BY <1>1, <1>2, <1>3 DEF AskOK

-----------------------------------------------------------------------------
(* The requests that read: each step leads to a state that is right about the *)
(* rows, which it does not change.                                            *)

Outcomes ==
    {"none", "complete", "selectionEmpty", "collectionEmpty", "notFound", "conflict",
     "badGateway", "serverError"}

LEMMA AskNames ==
    /\ \A s : s \in AskSteps <=>
          s \in {"idle", "resolve", "read", "scope", "provision", "collect", "run", "conclude",
                 "answered"}
    /\ Organization \in Scopes /\ Organization.type = "organization"
    /\ \A s \in Scopes : s.type \in {"name", "project", "portfolio", "organization"}
    /\ \A v \in Views : v \notin {"none", "advisor", "support"}
  BY DEF AskSteps, Organization, Scopes, Views

\* A request that is over.
LEMMA QuietOK ==
    /\ Quiet \in Request /\ AskOK(Quiet)
    /\ Quiet.step = "idle" /\ Quiet.got = {} /\ Quiet.context = {} /\ Quiet.cited = {} /\ Quiet.had = {}
    /\ Quiet.ran = {} /\ Quiet.todo = {} /\ Quiet.listed = {} /\ Quiet.level = "project"
    /\ Quiet.known = {} /\ Quiet.left = {} /\ Quiet.within = {} /\ Quiet.live = {}
    /\ Quiet.outcome = "none"
  <1>1. /\ Quiet.step = "idle" /\ Quiet.got = {} /\ Quiet.context = {} /\ Quiet.cited = {} /\ Quiet.had = {}
        /\ Quiet.ran = {} /\ Quiet.todo = {} /\ Quiet.listed = {} /\ Quiet.level = "project"
        /\ Quiet.known = {} /\ Quiet.left = {} /\ Quiet.within = {} /\ Quiet.live = {}
        /\ Quiet.outcome = "none" /\ Quiet.queue = <<>>
    BY DEF Quiet
  <1>2. Quiet \in Request
    BY AskNames, NameFacts DEF Quiet, Request
  <1>3. Routed(Quiet) /\ Fresh(Quiet)
    BY <1>1 DEF Routed, Fresh
  <1>4. InItsScope(Quiet) /\ Gathering(Quiet) /\ Units(Quiet) /\ Hopeful(Quiet)
    BY <1>1 DEF InItsScope, Gathering, Units, Hopeful, Busied
  <1>5. Grounded(Quiet)
    BY <1>1 DEF Grounded, Sources
  <1> QED BY <1>1, <1>2, <1>3, <1>4, <1>5 DEF AskOK

\* A question, or a view, that arrives.
LEMMA AskOKs ==
  ASSUME NEW q \in Readers, NEW op \in {"advisor", "support"} \cup Views,
         NEW step \in {"resolve", "read", "scope", "provision"},
         NEW scope \in Scopes, NEW name \in Names \cup {Elsewhere}, NEW queue \in Seq(Advisors),
         Ask(q, op, step, scope, name, queue),
         \A i \in DOMAIN queue : Fits(queue[i], scope.type),
         step \in {"resolve", "read"} => op \in Views /\ scope.type # "portfolio" /\ queue = <<>>,
         step = "resolve" => op # "detail",
         step = "read" /\ op = "detail" => scope.type = "organization",
         scope.type \in {"name", "project"} => step = "resolve" \/ name = scope.id,
         scope.type = "name" => name = scope.id,
         step = "provision" => queue # <<>>
  PROVE  \E n \in Request : AskOK(n) /\ Become(q, n)
  <1> DEFINE expected == {a \in Advisors : /\ \E i \in DOMAIN queue : queue[i] = a
                                           /\ HasEvidence(a, scope, name)}
             n == [Quiet EXCEPT !.op = op, !.step = step, !.scope = scope, !.name = name,
                                !.queue = queue, !.expected = expected]
  <1>1. Become(q, n)
    BY DEF Ask
  <1>2. expected \subseteq Advisors /\ \A a \in expected : HasEvidence(a, scope, name)
    OBVIOUS
  <1> HIDE DEF expected
  <1>3. n \in Request
    BY QuietOK, AskNames, <1>2 DEF Request
  <1>4. /\ n.step = step /\ n.op = op /\ n.scope = scope /\ n.name = name /\ n.queue = queue
        /\ n.expected = expected
        /\ n.got = {} /\ n.context = {} /\ n.cited = {} /\ n.had = {} /\ n.ran = {} /\ n.todo = {}
        /\ n.listed = {} /\ n.level = "project" /\ n.known = {} /\ n.left = {}
        /\ n.within = {} /\ n.live = {} /\ n.outcome = "none"
    BY QuietOK DEF Request
  <1> HIDE DEF n
  <1>5. Routed(n)
    BY <1>4 DEF Routed
  <1>6. Fresh(n)
    BY <1>4 DEF Fresh
  <1>7. InItsScope(n) /\ Gathering(n) /\ Units(n)
    BY <1>4 DEF InItsScope, Gathering, Units, Busied
  <1>8. Hopeful(n)
    BY <1>4, <1>2 DEF Hopeful
  <1>9. Grounded(n)
    BY <1>4 DEF Grounded, Sources
  <1> QED BY <1>1, <1>3, <1>5, <1>6, <1>7, <1>8, <1>9 DEF AskOK

\* What is answered belongs to the scope.
LEMMA AnswerOK ==
  ASSUME NEW q \in Readers, ask[q] \in Request, AskOK(ask[q]),
         NEW outcome \in Outcomes, NEW shown \in SUBSET Evidence,
         \A x \in shown : Belongs(ask[q].scope, x),
         outcome = "collectionEmpty" => ask[q].had = {},
         Answer(q, outcome, shown)
  PROVE  \E n \in Request : AskOK(n) /\ Become(q, n)
  <1> DEFINE a == ask[q]
             n == [a EXCEPT !.step = "answered", !.outcome = outcome, !.got = shown,
                            !.context = {}, !.queue = <<>>, !.name = NoName]
  <1>1. Become(q, n)
    BY DEF Answer
  <1>a. <<>> \in Seq(Advisors) /\ a \in Request
    OBVIOUS
  <1>2. n \in Request
    BY <1>a, AskNames, NameFacts DEF Request, Outcomes
  <1>3. /\ n.step = "answered" /\ n.outcome = outcome /\ n.got = shown /\ n.queue = <<>>
        /\ n.context = {}
        /\ n.scope = a.scope /\ n.cited = a.cited /\ n.ran = a.ran /\ n.had = a.had
        /\ n.expected = a.expected
    BY DEF Request
  <1> HIDE DEF n
  <1>4. Routed(n) /\ Fresh(n)
    BY <1>3 DEF Routed, Fresh
  <1>5. Gathering(n) /\ Units(n) /\ Hopeful(n)
    BY <1>3 DEF Gathering, Units, Hopeful, Busied
  <1>6. InItsScope(n)
    BY <1>3 DEF AskOK, InItsScope
  <1>7. Grounded(n)
    BY <1>3 DEF AskOK, Grounded
  <1> QED BY <1>1, <1>2, <1>4, <1>5, <1>6, <1>7 DEF AskOK

LEMMA ErrorOK ==
  ASSUME NEW q \in Readers, ask[q] \in Request, AskOK(ask[q]),
         NEW outcome \in Outcomes \ {"collectionEmpty"}, Answer(q, outcome, {})
  PROVE  \E n \in Request : AskOK(n) /\ Become(q, n)
  BY AnswerOK

\* Every question and every view starts right.
LEMMA SelectionStarts ==
  ASSUME NEW q \in Readers, BeginSomeAsk(q)
  PROVE  \E n \in Request : AskOK(n) /\ Become(q, n)
  <1> DEFINE Goal == \E n \in Request : AskOK(n) /\ Become(q, n)
  <1>1. ASSUME NEW advisor \in Advisors, NEW scope \in Scopes, NEW name \in Names \cup {Elsewhere},
               AskOne(q, advisor, scope, name), Fits(advisor, scope.type),
               scope.type \in {"name", "project"} => name = scope.id
        PROVE  Goal
    <2>1. <<advisor>> \in Seq(Advisors) /\ <<advisor>> # <<>>
          /\ \A i \in DOMAIN <<advisor>> : Fits(<<advisor>>[i], scope.type)
      BY <1>1
    <2> HIDE DEF Goal
    <2> QED BY <1>1, <2>1, AskOKs DEF AskOne, Goal
  <1> HIDE DEF Goal
  <1>2. ASSUME NEW name \in Names,
               AskRiskAdvisor(q, name) \/ AskDeliveryAdvisor(q, name)
        PROVE  Goal
    <2> DEFINE scope == [type |-> "name", id |-> name]
    <2>1. scope \in Scopes /\ scope.type = "name" /\ scope.id = name
      BY DEF Scopes
    <2>2. \A a \in ByProject : a \in Advisors /\ Fits(a, "name")
      BY DEF ByProject, Advisors, Fits, ByOrganization, ByDocuments
    <2>3. \E a \in ByProject : AskOne(q, a, scope, name)
      BY <1>2 DEF AskRiskAdvisor, AskDeliveryAdvisor, ByProject
    <2> HIDE DEF scope
    <2> QED BY <1>1, <2>1, <2>2, <2>3
  <1>3. ASSUME NEW pf \in Portfolios \cup {Foreign}, AskPortfolioAdvisor(q, pf)
        PROVE  Goal
    <2> DEFINE scope == [type |-> "portfolio", id |-> pf]
    <2>1. scope \in Scopes /\ scope.type = "portfolio"
      BY DEF Scopes
    <2>2. Fits("portfolio_advisor", "portfolio") /\ "portfolio_advisor" \in Advisors
      BY DEF ByProject, Advisors, Fits, ByOrganization, ByDocuments
    <2>3. AskOne(q, "portfolio_advisor", scope, NoName)
      BY <1>3 DEF AskPortfolioAdvisor
    <2> HIDE DEF scope
    <2> QED BY <1>1, <2>1, <2>2, <2>3, NameFacts
  <1>4. ASSUME \/ AskPMOAdvisor(q) \/ AskExecutiveAdvisor(q) \/ AskStrategyAdvisor(q)
               \/ AskDocumentAdvisor(q) \/ AskGovernanceAdvisor(q)
        PROVE  Goal
    <2>1. \A a \in ByOrganization \cup ByDocuments : a \in Advisors /\ Fits(a, "organization")
      BY DEF ByProject, Advisors, Fits, ByOrganization, ByDocuments
    <2>2. \E a \in ByOrganization \cup ByDocuments : AskOne(q, a, Organization, NoName)
      BY <1>4 DEF AskPMOAdvisor, AskExecutiveAdvisor, AskStrategyAdvisor, AskDocumentAdvisor,
                  AskGovernanceAdvisor, ByOrganization, ByDocuments
    <2> QED BY <1>1, <2>1, <2>2, NameFacts, AskNames
  <1>5. ASSUME NEW scope \in DeclaredScopes, NEW matching, Orchestrate(q, matching, scope)
        PROVE  Goal
    <2> DEFINE name == IF scope.type = "project" THEN scope.id ELSE NoName
    <2>1. /\ scope \in Scopes /\ scope.type \in {"project", "portfolio", "organization"}
          /\ scope.type = "project" => scope.id \in Names \cup {Elsewhere}
      BY NamesAssumption, AskNames DEF DeclaredScopes, Scopes
    <2>2. /\ Selected(matching, scope.type) \in Seq(Advisors)
          /\ \A i \in DOMAIN Selected(matching, scope.type) :
                Fits(Selected(matching, scope.type)[i], scope.type)
      BY <2>1, SelectedFits
    <2>3. name \in Names \cup {Elsewhere} /\ (scope.type = "project" => name = scope.id)
      BY <2>1, NameFacts
    <2>4. Ask(q, "support", "scope", scope, name, Selected(matching, scope.type))
      BY <1>5 DEF Orchestrate
    <2> HIDE DEF name
    <2> QED BY <2>1, <2>2, <2>3, <2>4, AskOKs DEF Goal
  <1>6. ASSUME NEW view \in Views, NEW step \in {"resolve", "read"}, NEW scope \in Scopes,
               NEW name \in Names \cup {Elsewhere},
               Ask(q, view, step, scope, name, <<>>),
               scope.type # "portfolio", scope.type = "name" => name = scope.id,
               step = "read" => scope.type = "organization",
               step = "resolve" => view # "detail"
        PROVE  Goal
    <2>1. <<>> \in Seq(Advisors) /\ \A i \in DOMAIN <<>> : Fits(<<>>[i], scope.type)
      OBVIOUS
    <2>2. scope.type \in {"name", "project"} => step = "resolve" \/ name = scope.id
      BY <1>6
    <2>3. step \in {"resolve", "read", "scope", "provision"} /\ step # "provision"
      BY <1>6
    <2> QED BY <2>1, <2>2, <2>3, <1>6, AskOKs DEF Goal
  <1>7. ASSUME OpenProjectView(q) PROVE Goal
    <2>1. PICK view \in Views \ {"portfolioSummary", "detail"} :
        \/ \E id \in StoredNames \cup {Elsewhere}, name \in TypedNames \cup {NoName} :
             OpenView(q, view, [type |-> "project", id |-> id], name)
        \/ \E name \in TypedNames \cup {NoName} :
             OpenView(q, view, [type |-> "name", id |-> name], name)
      BY <1>7 DEF OpenProjectView
    <2>2. ASSUME NEW id \in StoredNames \cup {Elsewhere}, NEW name \in TypedNames \cup {NoName},
                 OpenView(q, view, [type |-> "project", id |-> id], name)
          PROVE  Goal
      <3> DEFINE scope == [type |-> "project", id |-> id]
      <3>1. scope \in Scopes /\ scope.type = "project" /\ name \in Names
        BY NamesAssumption, NameFacts DEF Scopes
      <3>2. Ask(q, view, "resolve", scope, name, <<>>)
        BY <2>2 DEF OpenView
      <3> HIDE DEF scope
      <3> QED BY <3>1, <3>2, <1>6
    <2>3. ASSUME NEW name \in TypedNames \cup {NoName},
                 OpenView(q, view, [type |-> "name", id |-> name], name)
          PROVE  Goal
      <3> DEFINE scope == [type |-> "name", id |-> name]
      <3>1. scope \in Scopes /\ scope.type = "name" /\ scope.id = name /\ name \in Names
        BY NamesAssumption, NameFacts DEF Scopes
      <3>2. Ask(q, view, "resolve", scope, name, <<>>)
        BY <2>3 DEF OpenView
      <3> HIDE DEF scope
      <3> QED BY <3>1, <3>2, <1>6
    <2> QED BY <2>1, <2>2, <2>3
  <1>8. ASSUME OpenPortfolioSummary(q) \/ OpenAnalysis(q) PROVE Goal
    <2>1. \E view \in Views : Ask(q, view, "read", Organization, NoName, <<>>)
      BY <1>8 DEF OpenPortfolioSummary, OpenAnalysis, Views
    <2> QED BY <2>1, <1>6, AskNames, NameFacts
  <1>9. \A name \in TypedNames : name \in Names
    BY NamesAssumption
  <1>10. Goal
    BY <1>2, <1>3, <1>4, <1>5, <1>7, <1>8, <1>9
       DEF BeginSomeAsk, AskDecisionSupport, GenerateNarrative
  <1> QED BY <1>10 DEF Goal

-----------------------------------------------------------------------------
(* Evidence. *)

\* What gather_context finds under a name was typed for that name.
LEMMA GatheredFacts ==
  ASSUME RowsInv, NEW name \in Names \cup {Elsewhere}, NEW kind, NEW i \in Gathered(name, kind)
  PROVE  /\ i \in DOMAIN analyses /\ i \in Nat
         /\ analyses[i].org = "own" /\ analyses[i].typed \in Names
         /\ Blank(name) \/ ProjectFor(analyses[i].typed) = Strip(name)
  <1>1. i \in Rows(ProjectsNamed(name))
    BY DEF Gathered
  <1>2. i \in DOMAIN analyses /\ analyses[i].org = "own" /\ analyses[i].project \in ProjectsNamed(name)
    BY <1>1 DEF Rows
  <1>3. analyses[i].project = ProjectFor(analyses[i].typed)
    BY <1>2 DEF RowsInv, Filed
  <1>4. Blank(name) \/ analyses[i].project = Strip(name)
    BY <1>2 DEF ProjectsNamed
  <1> QED BY <1>2, <1>3, <1>4, RowTypes

\* And all that was typed for it is found.
LEMMA RecordedIsGathered ==
  ASSUME RowsInv, NEW name \in Names \cup {Elsewhere}, NEW kind
  PROVE  Recorded(name, kind) \subseteq Gathered(name, kind)
  <1> SUFFICES ASSUME NEW i \in Recorded(name, kind) PROVE i \in Gathered(name, kind)
    OBVIOUS
  <1>1. /\ i \in DOMAIN analyses /\ analyses[i].org = "own" /\ analyses[i].kind = kind
        /\ analyses[i].structured
        /\ Blank(name) \/ ProjectFor(analyses[i].typed) = ProjectFor(name)
    BY DEF Recorded
  <1>2. analyses[i].project = ProjectFor(analyses[i].typed) /\ projects[analyses[i].project] # NoRow
        /\ analyses[i].project \in Names
    BY <1>1, RowTypes DEF RowsInv, Filed
  <1>3. analyses[i].project \in ProjectsNamed(name)
    <2>1. CASE Blank(name)
      BY <1>2, <2>1 DEF ProjectsNamed
    <2>2. CASE ~ Blank(name)
      <3>1. analyses[i].project = Strip(name)
        BY <1>1, <1>2, <2>2 DEF ProjectFor
      <3> QED BY <1>2, <2>2, <3>1 DEF ProjectsNamed
    <2> QED BY <2>1, <2>2
  <1>4. i \in Rows(ProjectsNamed(name))
    BY <1>1, <1>3 DEF Rows
  <1> QED BY <1>1, <1>4 DEF Gathered

\* The newest of some analyses is one of them, and there is one.
LEMMA NewestOf ==
  ASSUME RowsInv, NEW rows \in SUBSET DOMAIN analyses
  PROVE  Newest(rows) \subseteq rows /\ (rows # {} => Newest(rows) # {})
  <1>1. Newest(rows) \subseteq rows
    BY DEF Newest
  <1>2. ASSUME rows # {} PROVE Newest(rows) # {}
    <2>1. rows \in SUBSET (0 .. Len(analyses)) /\ Len(analyses) \in Nat
      BY RowTypes
    <2>2. PICK i \in rows : \A j \in rows : j <= i
      BY <1>2, <2>1, HighestOf
    <2> QED BY <2>2 DEF Newest
  <1> QED BY <1>1, <1>2

LEMMA AsItems ==
  ASSUME RowsInv, NEW rows \in SUBSET DOMAIN analyses, NEW name \in Names
  PROVE  /\ As(rows, name) \subseteq Evidence
         /\ \A x \in As(rows, name) :
              x[1] = "analysis" /\ x[2] \in rows /\ x[3] = name
         /\ rows # {} => As(rows, name) # {}
  <1>1. ASSUME NEW x \in As(rows, name)
        PROVE  x \in Evidence /\ x[1] = "analysis" /\ x[2] \in rows /\ x[3] = name
    <2>1. PICK i \in rows : x = <<"analysis", i, name>>
      BY DEF As
    <2>2. i \in Nat
      BY <2>1, RowTypes
    <2>3. x \in {"analysis"} \X Nat \X Names
      BY <2>1, <2>2
    <2> QED BY <2>1, <2>3 DEF Evidence
  <1>2. rows # {} => As(rows, name) # {}
    BY DEF As
  <1> QED BY <1>1, <1>2

\* Whose turn it is, and what its scope is.
LEMMA TurnFits ==
  ASSUME NEW a \in Request, AskOK(a), a.step \in {"provision", "collect", "run"}
  PROVE  /\ Turn(a) \in Advisors /\ Fits(Turn(a), a.scope.type)
         /\ a.step # "run" /\ Turn(a) \in a.expected => HasEvidence(Turn(a), a.scope, a.name)
         /\ a.scope.type \in {"name", "project", "portfolio", "organization"}
         /\ a.scope \in Scopes
  <1>1. a.queue \in Seq(Advisors) /\ a.queue # <<>> /\ a.scope \in Scopes
    BY DEF Request, AskOK, Routed
  <1>2. 1 \in DOMAIN a.queue /\ Turn(a) = a.queue[1] /\ a.queue[1] \in Advisors
    BY <1>1 DEF Turn
  <1>3. Fits(a.queue[1], a.scope.type)
    BY <1>2 DEF AskOK, Routed
  <1>4. a.queue[1] \in a.expected => HasEvidence(a.queue[1], a.scope, a.name)
    BY <1>2 DEF AskOK, Hopeful
  <1> QED BY <1>1, <1>2, <1>3, <1>4, AskNames

\* Two states of a request that serves the same advisor.  Only a route of one
\* advisor puts more into its prompt.
Serves(a, n) ==
    /\ n.op = a.op /\ n.scope = a.scope /\ n.name = a.name /\ n.queue = a.queue
    /\ n.had = a.had /\ n.ran = a.ran /\ n.cited = a.cited
    /\ n.expected = a.expected /\ n.outcome = a.outcome
    /\ n.context \subseteq a.context \/ n.op = "advisor"

\* What is left to show of a step that collects evidence.
LEMMA ServesOK ==
  ASSUME NEW a \in Request, AskOK(a), a.step \in {"provision", "collect"},
         NEW n \in Request, Serves(a, n), n.step \in {"collect", "run"},
         n.step = "collect" => Turn(a) \in Gatherers,
         n.step = "run" => n.todo = {} /\ n.left = {} /\ n.within = {},
         \A x \in n.got : x \in a.got \/ Belongs(a.scope, x),
         Gathering(n), Units(n),
         n.step = "run" /\ Turn(a) \in a.expected => n.got # {},
         n.step = "collect" /\ Turn(a) \in a.expected /\ n.got = {} =>
            \/ CallPending(n)
            \/ Turn(a) = "portfolio_advisor" /\ MemberPending(n)
            \/ Turn(a) = "strategy_advisor" /\ ObjectivePending(n)
  PROVE  AskOK(n)
  <1>1. Routed(n)
    BY DEF Routed, AskOK, Serves, Turn
  <1>2. Fresh(n)
    BY DEF Fresh
  <1>3. InItsScope(n)
    BY DEF InItsScope, AskOK, Serves
  <1>4. Hopeful(n)
    BY DEF Hopeful, AskOK, Serves, Turn
  <1>5. Grounded(n)
    BY DEF Grounded, AskOK, Serves
  <1> QED BY <1>1, <1>2, <1>3, <1>4, <1>5 DEF AskOK

LEMMA ScopeResolved ==
  ASSUME NEW q \in Readers, ask[q] \in Request, AskOK(ask[q]), ResolveDeclaredScope(q)
  PROVE  \E n \in Request : AskOK(n) /\ Become(q, n)
  <1> DEFINE a == ask[q]
             n == [a EXCEPT !.step = "provision"]
             Mine == CASE a.scope.type = "project" -> a.scope.id \in Linked
                       [] a.scope.type = "portfolio" -> a.scope.id \in portfolios
                       [] a.scope.type = "organization" -> TRUE
  <1>0. /\ a.step = "scope"
        /\ IF ~ Mine THEN Answer(q, "notFound", {})
           ELSE IF a.queue = <<>> THEN Answer(q, "selectionEmpty", {})
           ELSE Become(q, n)
    BY DEF ResolveDeclaredScope, AskAt
  <1> HIDE DEF Mine
  <1>1. CASE Answer(q, "notFound", {}) \/ Answer(q, "selectionEmpty", {})
    BY <1>1, ErrorOK DEF Outcomes
  <1>2. CASE Become(q, n) /\ a.queue # <<>>
    <2>1. n \in Request
      BY AskNames DEF Request
    <2>2. /\ n.step = "provision" /\ Serves(a, n) /\ n.got = a.got /\ n.todo = a.todo
          /\ n.listed = a.listed /\ n.level = a.level /\ n.known = a.known /\ n.left = a.left
          /\ n.within = a.within /\ n.live = a.live
      BY DEF Request, Serves
    <2> HIDE DEF n
    <2>3. Routed(n)
      BY <1>0, <1>2, <2>2 DEF Routed, AskOK, Serves
    <2>4. Fresh(n)
      BY <1>0, <2>2 DEF Fresh, AskOK
    <2>5. InItsScope(n) /\ Grounded(n)
      BY <2>2 DEF InItsScope, Grounded, AskOK, Serves
    <2>6. Gathering(n) /\ Units(n)
      BY <2>2 DEF Gathering, Units, Busied
    <2>7. Hopeful(n)
      BY <1>0, <2>2 DEF Hopeful, AskOK, Serves
    <2> QED BY <1>2, <2>1, <2>3, <2>4, <2>5, <2>6, <2>7 DEF AskOK
  <1> QED BY <1>0, <1>1, <1>2

LEMMA ProjectProvisioned ==
  ASSUME WorkspaceInv, NEW q \in Readers, ask[q] \in Request, AskOK(ask[q]),
         ProvisionByProject(q)
  PROVE  \E n \in Request : AskOK(n) /\ Become(q, n)
  <1> DEFINE a == ask[q]
             got == UNION {As(Gathered(a.name, kind), NoName) : kind \in KindsOf(Current(q))}
  <1>a. PICK chunks \in SUBSET Chunks :
           /\ chunks # {} => a.op = "advisor"
           /\ Become(q, [a EXCEPT !.step = "run", !.context = chunks, !.got = got])
    BY DEF ProvisionByProject
  <1> DEFINE n == [a EXCEPT !.step = "run", !.context = chunks, !.got = got]
  <1>0. a.step = "provision" /\ Turn(a) \in ByProject /\ Current(q) = Turn(a) /\ Become(q, n)
    BY <1>a DEF ProvisionByProject, AskAt, Turn, Current
  <1>1. /\ Turn(a) \in Advisors /\ Fits(Turn(a), a.scope.type)
        /\ Turn(a) \in a.expected => HasEvidence(Turn(a), a.scope, a.name)
        /\ a.scope.type \in {"name", "project", "portfolio", "organization"}
    BY <1>0, TurnFits
  <1>2. a.name \in Names \cup {Elsewhere} /\ RowsInv
    BY DEF Request, WorkspaceInv
  <1>3. a.scope.type # "portfolio" /\ (a.scope.type \in {"name", "project"} => a.name = a.scope.id)
    BY <1>0, <1>1 DEF Fits, AskOK, Routed
  <1>4. ASSUME NEW x \in got PROVE x \in Evidence /\ Belongs(a.scope, x)
    <2>1. PICK kind \in KindsOf(Current(q)) : x \in As(Gathered(a.name, kind), NoName)
      OBVIOUS
    <2>2. Gathered(a.name, kind) \in SUBSET DOMAIN analyses
      BY <1>2, GatheredFacts
    <2>3. x \in Evidence /\ x[1] = "analysis" /\ x[2] \in Gathered(a.name, kind) /\ x[3] = NoName
      BY <1>2, <2>1, <2>2, AsItems, NameFacts
    <2>4. /\ x[2] \in DOMAIN analyses /\ analyses[x[2]].org = "own"
          /\ Blank(a.name) \/ ProjectFor(analyses[x[2]].typed) = Strip(a.name)
      BY <1>2, <2>3, GatheredFacts
    <2>5. InScope(a.scope, x)
      BY <1>3, <2>3, <2>4, NameFacts DEF InScope
    <2> QED BY <1>3, <2>3, <2>4, <2>5 DEF Belongs
  <1>5. Turn(a) \in a.expected => got # {}
    <2> SUFFICES ASSUME Turn(a) \in a.expected PROVE got # {}
      OBVIOUS
    <2>1. PICK kind \in KindsOf(Turn(a)) : Recorded(a.name, kind) # {}
      BY <1>0, <1>1, EvidenceShape, TargetsShape, AdvisorKinds
    <2>2. Gathered(a.name, kind) # {} /\ Gathered(a.name, kind) \in SUBSET DOMAIN analyses
      BY <1>2, <2>1, RecordedIsGathered, GatheredFacts
    <2>3. As(Gathered(a.name, kind), NoName) # {}
      BY <1>2, <2>2, AsItems, NameFacts
    <2> QED BY <1>0, <2>1, <2>3
  <1> HIDE DEF got
  <1>6. got \in SUBSET Evidence
    BY <1>4
  <1>7. n \in Request
    BY <1>6, AskNames DEF Request
  <1>8. /\ n.step = "run" /\ Serves(a, n) /\ n.got = got /\ n.todo = a.todo
        /\ n.left = a.left /\ n.within = a.within
    BY <1>a DEF Request, Serves
  <1> HIDE DEF n
  <1>9. n.todo = {} /\ n.left = {} /\ n.within = {}
    BY <1>0, <1>8 DEF AskOK, Fresh
  <1>10. ~ Busied(n)
    BY <1>0, <1>1, <1>8, AdvisorKinds DEF Busied, Serves, Turn
  <1>11. Gathering(n) /\ Units(n)
    BY <1>10 DEF Gathering, Units
  <1>12. AskOK(n)
    BY <1>0, <1>4, <1>5, <1>7, <1>8, <1>9, <1>11, ServesOK
  <1> QED BY <1>0, <1>7, <1>12

LEMMA DocumentsProvisioned ==
  ASSUME NEW q \in Readers, ask[q] \in Request, AskOK(ask[q]), ProvisionByDocuments(q)
  PROVE  \E n \in Request : AskOK(n) /\ Become(q, n)
  <1> DEFINE a == ask[q]
  <1>1. PICK chunks \in SUBSET Chunks :
           Become(q, [a EXCEPT !.step = "run", !.got = {<<"chunk", c, NoName>> : c \in chunks}])
    BY DEF ProvisionByDocuments
  <1> DEFINE got == {<<"chunk", c, NoName>> : c \in chunks}
             n == [a EXCEPT !.step = "run", !.got = got]
  <1>0. a.step = "provision" /\ Turn(a) \in ByDocuments /\ Become(q, n)
    BY <1>1 DEF ProvisionByDocuments, AskAt, Turn, Current
  <1>2. /\ Turn(a) \in Advisors /\ Fits(Turn(a), a.scope.type)
        /\ Turn(a) \in a.expected => HasEvidence(Turn(a), a.scope, a.name)
    BY <1>0, TurnFits
  <1>3. a.scope.type = "organization"
    BY <1>0, <1>2 DEF Fits
  <1>4. ASSUME NEW x \in got PROVE x \in Evidence /\ Belongs(a.scope, x)
    <2>1. PICK c \in chunks : x = <<"chunk", c, NoName>>
      OBVIOUS
    <2>2. x \in {"chunk"} \X Chunks \X {NoName} /\ x[1] = "chunk"
      BY <2>1
    <2> QED BY <1>3, <2>2 DEF Evidence, Belongs
  <1>5. Turn(a) \notin a.expected
    BY <1>0, <1>2, EvidenceShape, AdvisorKinds
  <1> HIDE DEF got
  <1>6. got \in SUBSET Evidence
    BY <1>4
  <1>7. n \in Request
    BY <1>6, AskNames DEF Request
  <1>8. /\ n.step = "run" /\ Serves(a, n) /\ n.got = got /\ n.todo = a.todo
        /\ n.left = a.left /\ n.within = a.within
    BY DEF Request, Serves
  <1> HIDE DEF n
  <1>9. n.todo = {} /\ n.left = {} /\ n.within = {}
    BY <1>0, <1>8 DEF AskOK, Fresh
  <1>10. ~ Busied(n)
    BY <1>0, <1>2, <1>8, AdvisorKinds DEF Busied, Serves, Turn
  <1>11. Gathering(n) /\ Units(n)
    BY <1>10 DEF Gathering, Units
  <1>12. AskOK(n)
    BY <1>0, <1>4, <1>5, <1>7, <1>8, <1>9, <1>11, ServesOK
  <1> QED BY <1>0, <1>7, <1>12

-----------------------------------------------------------------------------
(* The assemblers. *)

LEMMA PortfolioProvisioned ==
  ASSUME WorkspaceInv, NEW q \in Readers, ask[q] \in Request, AskOK(ask[q]),
         ProvisionByPortfolio(q)
  PROVE  \E n \in Request : AskOK(n) /\ Become(q, n)
  <1> DEFINE a == ask[q]
             n == [a EXCEPT !.step = "collect", !.level = "portfolio",
                            !.within = ProgramsOf(a.scope.id)]
  <1>0. /\ a.step = "provision" /\ Turn(a) = "portfolio_advisor"
        /\ IF a.scope.id \notin portfolios THEN Answer(q, "notFound", {}) ELSE Become(q, n)
    BY DEF ProvisionByPortfolio, AskAt, Turn, Current
  <1>1. CASE a.scope.id \notin portfolios
    BY <1>0, <1>1, ErrorOK DEF Outcomes
  <1>2. CASE a.scope.id \in portfolios
    <2>1. /\ Turn(a) \in Advisors /\ Fits(Turn(a), a.scope.type)
          /\ Turn(a) \in a.expected => HasEvidence(Turn(a), a.scope, a.name)
      BY <1>0, TurnFits
    <2>2. ProgramsOf(a.scope.id) \in SUBSET Programs
      BY DEF ProgramsOf
    <2>3. n \in Request
      BY <2>2, AskNames DEF Request
    <2>4. /\ n.step = "collect" /\ Serves(a, n) /\ n.level = "portfolio"
          /\ n.within = ProgramsOf(a.scope.id)
          /\ n.todo = a.todo /\ n.left = a.left /\ n.got = a.got
      BY DEF Request, Serves
    <2> HIDE DEF n
    <2>5. n.todo = {} /\ n.left = {} /\ n.got = {}
      BY <1>0, <2>4 DEF AskOK, Fresh
    <2>6. Turn(n) = Turn(a) /\ Turn(a) \in Gatherers
      BY <1>0, <2>4 DEF Serves, Turn, Gatherers
    <2>7. Gathering(n) /\ Units(n)
      BY <1>0, <1>2, <2>4, <2>5, <2>6 DEF Gathering, Units, Serves
    <2>8. ASSUME Turn(a) \in a.expected PROVE MemberPending(n)
      <3>1. PICK m \in TargetsOf(Turn(a), a.scope, a.name) : Recorded(m, "status") # {}
        BY <1>0, <2>1, <2>8, EvidenceShape, AdvisorKinds
      <3>2. m \in Linked /\ PortfolioOf(m) = a.scope.id
        BY <1>0, <2>1, <3>1, TargetsShape
      <3>3. projects[m] \in ProgramsOf(a.scope.id)
        BY <3>2, RowTypes DEF WorkspaceInv, ProgramsOf, PortfolioOf
      <3> QED BY <3>1, <3>2, <3>3, <2>4 DEF MemberPending
    <2>9. AskOK(n)
      BY <1>0, <2>3, <2>4, <2>5, <2>6, <2>7, <2>8, ServesOK
    <2> QED BY <1>0, <1>2, <2>3, <2>9
  <1> QED BY <1>1, <1>2

LEMMA OrganizationProvisioned ==
  ASSUME WorkspaceInv, NEW q \in Readers, ask[q] \in Request, AskOK(ask[q]),
         ProvisionByOrganization(q)
  PROVE  \E n \in Request : AskOK(n) /\ Become(q, n)
  <1> DEFINE a == ask[q]
             n == [a EXCEPT !.step = "collect", !.level = "project", !.listed = Linked,
                            !.todo = Linked \X KindsOf(Current(q))]
  <1>0. /\ a.step = "provision" /\ Turn(a) \in ByOrganization /\ Current(q) = Turn(a)
        /\ Become(q, n)
    BY DEF ProvisionByOrganization, AskAt, Turn, Current
  <1>1. /\ Turn(a) \in Advisors /\ Fits(Turn(a), a.scope.type)
        /\ Turn(a) \in a.expected => HasEvidence(Turn(a), a.scope, a.name)
    BY <1>0, TurnFits
  <1>2. a.scope.type = "organization"
    BY <1>0, <1>1 DEF Fits
  <1>3. KindsOf(Current(q)) \subseteq Kinds /\ Linked \in SUBSET Names
    BY <1>0, <1>1, AdvisorKinds DEF Linked
  <1>4. n \in Request
    BY <1>3, AskNames DEF Request
  <1>5. /\ n.step = "collect" /\ Serves(a, n) /\ n.level = "project"
        /\ n.todo = Linked \X KindsOf(Current(q))
        /\ n.within = a.within /\ n.left = a.left /\ n.got = a.got /\ n.live = a.live
        /\ n.known = a.known /\ n.listed = Linked
    BY DEF Request, Serves
  <1> HIDE DEF n
  <1>6. n.within = {} /\ n.left = {} /\ n.got = {} /\ n.live = {} /\ n.known = {}
    BY <1>0, <1>5 DEF AskOK, Fresh
  <1>7. Turn(n) = Turn(a) /\ Turn(a) \in Gatherers /\ Turn(a) # "portfolio_advisor"
    BY <1>0, <1>5 DEF Serves, Turn, Gatherers, ByOrganization
  <1>8. Gathering(n)
    BY <1>2, <1>5, <1>6, <1>7 DEF Gathering, Serves
  <1>9. Units(n)
    BY <1>5, <1>6 DEF Units
  <1>10. ASSUME Turn(a) \in a.expected
         PROVE  \/ CallPending(n)
                \/ Turn(a) = "strategy_advisor" /\ ObjectivePending(n)
    <2>1. CASE \E m \in TargetsOf(Turn(a), a.scope, a.name), kind \in KindsOf(Turn(a)) :
                  Recorded(m, kind) # {}
      <3>1. PICK m \in Linked, kind \in KindsOf(Turn(a)) : Recorded(m, kind) # {}
        BY <2>1, <1>0, <1>1, <1>7, TargetsShape, AdvisorKinds
      <3>2. <<m, kind>> \in n.todo
        BY <1>0, <1>5, <3>1
      <3>3. <<m, kind>>[1] = m /\ <<m, kind>>[2] = kind
        OBVIOUS
      <3> QED BY <3>1, <3>2, <3>3 DEF CallPending
    <2>2. CASE /\ Turn(a) = "strategy_advisor"
               /\ \/ Linked \cap DeclaringProjects # {}
                  \/ \E u \in Declaring : u \in portfolios
                  \/ \E u \in Declaring \cap Programs : programs[u] # NoRow
      BY <2>2, <1>5 DEF ObjectivePending
    <2> QED BY <1>1, <1>10, <2>1, <2>2, EvidenceShape
  <1>11. AskOK(n)
    BY <1>0, <1>4, <1>5, <1>6, <1>7, <1>8, <1>9, <1>10, ServesOK
  <1> QED BY <1>0, <1>4, <1>11

\* What is known while evidence is collected.
LEMMA CollectFacts ==
  ASSUME WorkspaceInv, NEW a \in Request, AskOK(a), a.step = "collect"
  PROVE  /\ RowsInv
         /\ Busied(a) /\ Turn(a) \in Gatherers /\ Turn(a) \in Advisors
         /\ a.scope.type \in {"organization", "portfolio"}
         /\ a.scope.type = "portfolio" <=> Turn(a) = "portfolio_advisor"
         /\ a.level = "program" => Turn(a) = "strategy_advisor"
         /\ a.left # {} => Turn(a) = "strategy_advisor"
         /\ a.within # {} => Turn(a) \in {"strategy_advisor", "portfolio_advisor"}
         /\ Turn(a) = "strategy_advisor" /\ a.level # "project" => a.todo = {}
         /\ Turn(a) = "strategy_advisor" /\ a.level = "project" => a.left = {} /\ a.within = {}
         /\ Turn(a) \in a.expected /\ a.got = {} =>
              \/ CallPending(a)
              \/ Turn(a) = "portfolio_advisor" /\ MemberPending(a)
              \/ Turn(a) = "strategy_advisor" /\ ObjectivePending(a)
         /\ a.known \subseteq Portfolios /\ a.left \subseteq Portfolios /\ a.within \subseteq Programs
         /\ a.got \subseteq Evidence /\ a.todo \subseteq Names \X Kinds
         /\ a.level \in {"project", "program", "portfolio"}
  <1>1. /\ RowsInv /\ Routed(a) /\ Gathering(a) /\ Units(a) /\ Hopeful(a)
    BY DEF WorkspaceInv, AskOK
  <1>2. Turn(a) \in Gatherers /\ Busied(a)
    BY <1>1 DEF Routed, Busied
  <1>3. Turn(a) \in Advisors /\ Fits(Turn(a), a.scope.type)
    BY TurnFits
  <1>4. Turn(a) \in {"pmo_advisor", "executive_advisor", "strategy_advisor", "portfolio_advisor"}
    BY <1>2 DEF Gatherers, ByOrganization
  <1>5. /\ a.scope.type \in {"organization", "portfolio"}
        /\ a.scope.type = "portfolio" <=> Turn(a) = "portfolio_advisor"
    BY <1>3, <1>4 DEF Fits, ByOrganization
  <1>6. /\ a.level = "program" => Turn(a) = "strategy_advisor"
        /\ a.left # {} => Turn(a) = "strategy_advisor"
        /\ a.within # {} => Turn(a) \in {"strategy_advisor", "portfolio_advisor"}
        /\ Turn(a) = "strategy_advisor" /\ a.level # "project" => a.todo = {}
    BY <1>1, <1>2, <1>4 DEF Gathering
  <1>7. Turn(a) = "strategy_advisor" /\ a.level = "project" => a.left = {} /\ a.within = {}
    BY <1>1, <1>2 DEF Units
  <1>8. Turn(a) \in a.expected /\ a.got = {} =>
              \/ CallPending(a)
              \/ Turn(a) = "portfolio_advisor" /\ MemberPending(a)
              \/ Turn(a) = "strategy_advisor" /\ ObjectivePending(a)
    BY <1>1 DEF Hopeful
  <1>9. /\ a.known \subseteq Portfolios /\ a.left \subseteq Portfolios /\ a.within \subseteq Programs
        /\ a.got \subseteq Evidence /\ a.todo \subseteq Names \X Kinds
        /\ a.level \in {"project", "program", "portfolio"}
    BY DEF Request
  <1> QED BY <1>1, <1>2, <1>3, <1>5, <1>6, <1>7, <1>8, <1>9

\* What a call finds belongs to its project, and another call or an item remains.
LEMMA ProjectGathered ==
  ASSUME WorkspaceInv, NEW q \in Readers, ask[q] \in Request, AskOK(ask[q]), GatherProject(q)
  PROVE  \E n \in Request : AskOK(n) /\ Become(q, n)
  <1> DEFINE a == ask[q]
  <1>0. a.step = "collect" /\ Current(q) = Turn(a)
    BY DEF GatherProject, AskAt, Turn, Current
  <1>1. PICK call \in a.todo :
           LET rows == Gathered(call[1], call[2])
               kept == IF Current(q) = "pmo_advisor" THEN rows ELSE Newest(rows)
           IN  Become(q, [a EXCEPT !.todo = a.todo \ {call}, !.got = a.got \cup As(kept, call[1])])
    BY DEF GatherProject
  <1> DEFINE rows == Gathered(call[1], call[2])
             kept == IF Current(q) = "pmo_advisor" THEN rows ELSE Newest(rows)
             found == As(kept, call[1])
             n == [a EXCEPT !.todo = a.todo \ {call}, !.got = a.got \cup found]
  <1>2. Become(q, n)
    BY <1>1
  <1>3. /\ RowsInv /\ Busied(a) /\ Turn(a) \in Gatherers
        /\ a.scope.type \in {"organization", "portfolio"}
        /\ a.todo \subseteq Names \X Kinds /\ a.got \subseteq Evidence
    BY <1>0, CollectFacts
  <1>4. call[1] \in Names /\ call[2] \in Kinds /\ call[1] \in Linked
        /\ (a.scope.type = "portfolio" => PortfolioOf(call[1]) = a.scope.id)
    BY <1>3 DEF AskOK, Gathering
  <1>5. /\ rows \in SUBSET DOMAIN analyses
        /\ \A i \in rows : /\ analyses[i].org = "own"
                           /\ Blank(call[1]) \/ ProjectFor(analyses[i].typed) = Strip(call[1])
    BY <1>3, <1>4, GatheredFacts
  <1> HIDE DEF rows
  <1>6. kept \subseteq rows /\ (rows # {} => kept # {})
    BY <1>3, <1>5, NewestOf
  <1> HIDE DEF kept
  <1>7. /\ found \subseteq Evidence
        /\ \A x \in found : x[1] = "analysis" /\ x[2] \in rows /\ x[3] = call[1]
        /\ kept # {} => found # {}
    BY <1>3, <1>4, <1>5, <1>6, AsItems
  <1>8. ASSUME NEW x \in found PROVE Belongs(a.scope, x)
    <2>1. /\ x[1] = "analysis" /\ x[2] \in DOMAIN analyses /\ analyses[x[2]].org = "own"
          /\ x[3] = call[1]
          /\ Blank(call[1]) \/ ProjectFor(analyses[x[2]].typed) = Strip(call[1])
      BY <1>5, <1>7
    <2>2. InScope(a.scope, x)
      BY <1>3, <1>4, <2>1 DEF InScope
    <2> QED BY <2>1, <2>2 DEF Belongs
  <1> HIDE DEF found
  <1>9. n \in Request
    BY <1>7 DEF Request
  <1>10. /\ n.step = "collect" /\ Serves(a, n) /\ n.todo = a.todo \ {call}
         /\ n.got = a.got \cup found /\ n.level = a.level /\ n.known = a.known
         /\ n.left = a.left /\ n.within = a.within /\ n.live = a.live /\ n.listed = a.listed
    BY <1>0 DEF Request, Serves
  <1> HIDE DEF n
  <1>11. Turn(n) = Turn(a)
    BY <1>10 DEF Serves, Turn
  <1>12. Gathering(n)
    <2>1. Gathering(a)
      BY DEF AskOK
    <2> QED BY <2>1, <1>0, <1>3, <1>4, <1>7, <1>10, <1>11 DEF Gathering, Serves, Busied
  <1>13. Units(n)
    <2> SUFFICES ASSUME Turn(a) = "strategy_advisor" PROVE Units(n)
      BY <1>11 DEF Units
    <2>1. a.level = "project"
      BY <1>0, CollectFacts
    <2>2. a.live = {} /\ a.left = {} /\ a.within = {} /\ a.known = {}
      BY <1>3, <2>1 DEF AskOK, Units
    <2> QED BY <2>1, <2>2, <1>10 DEF Units
  <1>14. ASSUME Turn(a) \in a.expected, n.got = {}
         PROVE  \/ CallPending(n)
                \/ Turn(a) = "portfolio_advisor" /\ MemberPending(n)
                \/ Turn(a) = "strategy_advisor" /\ ObjectivePending(n)
    <2>1. a.got = {} /\ found = {}
      BY <1>10, <1>14
    <2>2. rows = {}
      BY <2>1, <1>6, <1>7
    <2>3. Recorded(call[1], call[2]) = {}
      BY <2>2, <1>3, <1>4, RecordedIsGathered DEF rows
    <2>4. CallPending(a) => CallPending(n)
      BY <2>3, <1>10 DEF CallPending
    <2>5. /\ MemberPending(a) => MemberPending(n)
          /\ ObjectivePending(a) => ObjectivePending(n)
      BY <1>10 DEF MemberPending, ObjectivePending
    <2> QED BY <2>1, <2>4, <2>5, <1>0, <1>14, CollectFacts
  <1>15. AskOK(n)
    BY <1>0, <1>3, <1>8, <1>9, <1>10, <1>12, <1>13, <1>14, ServesOK
  <1> QED BY <1>2, <1>9, <1>15

LEMMA ProjectsListed ==
  ASSUME WorkspaceInv, NEW q \in Readers, ask[q] \in Request, AskOK(ask[q]), ListProjects(q)
  PROVE  \E n \in Request : AskOK(n) /\ Become(q, n)
  <1> DEFINE a == ask[q]
  <1>0. a.step = "collect" /\ a.todo = {} /\ Turn(a) = "portfolio_advisor"
    BY DEF ListProjects, AskAt, Turn, Current
  <1>1. PICK g \in a.within :
           Become(q, [a EXCEPT !.within = a.within \ {g}, !.todo = Members(g) \X {"status"}])
    BY DEF ListProjects
  <1> DEFINE n == [a EXCEPT !.within = a.within \ {g}, !.todo = Members(g) \X {"status"}]
  <1>a. Become(q, n)
    BY <1>1
  <1>2. /\ RowsInv /\ Busied(a) /\ Turn(a) \in Gatherers /\ a.within \subseteq Programs
        /\ Gathering(a)
    BY <1>0, CollectFacts DEF AskOK
  <1>3. g \in Programs /\ programs[g] = a.scope.id
    BY <1>0, <1>2 DEF Gathering, ProgramsOf
  <1>4. \A m \in Members(g) : m \in Names /\ projects[m] = g /\ m \in Linked /\ PortfolioOf(m) = a.scope.id
    BY <1>3 DEF Members, Linked, PortfolioOf
  <1>5. n \in Request
    BY <1>4 DEF Request, Kinds
  <1>6. /\ n.step = "collect" /\ Serves(a, n) /\ n.within = a.within \ {g}
        /\ n.todo = Members(g) \X {"status"} /\ n.got = a.got /\ n.level = a.level
        /\ n.left = a.left
    BY <1>0 DEF Request, Serves
  <1> HIDE DEF n
  <1>7. Turn(n) = Turn(a)
    BY <1>6 DEF Serves, Turn
  <1>8. Gathering(n)
    BY <1>0, <1>2, <1>4, <1>6, <1>7 DEF Gathering, Serves
  <1>9. Units(n)
    BY <1>0, <1>7 DEF Units
  <1>10. ASSUME Turn(a) \in a.expected, n.got = {} PROVE CallPending(n) \/ MemberPending(n)
    <2>1. MemberPending(a)
      BY <1>0, <1>6, <1>10, CollectFacts DEF CallPending
    <2>2. PICK m \in Linked : projects[m] \in a.within /\ Recorded(m, "status") # {}
      BY <2>1 DEF MemberPending
    <2>3. CASE projects[m] = g
      <3>1. <<m, "status">> \in n.todo
        BY <2>3, <1>6 DEF Members, Linked
      <3>2. <<m, "status">>[1] = m /\ <<m, "status">>[2] = "status"
        OBVIOUS
      <3> QED BY <2>2, <3>1, <3>2 DEF CallPending
    <2>4. CASE projects[m] # g
      BY <2>2, <2>4, <1>6 DEF MemberPending
    <2> QED BY <2>3, <2>4
  <1>11. AskOK(n)
    BY <1>0, <1>2, <1>5, <1>6, <1>8, <1>9, <1>10, ServesOK
  <1> QED BY <1>a, <1>5, <1>11

-----------------------------------------------------------------------------
(* The strategy assembler. *)

\* A step of it: the projects are gathered, and units are listed.
StrategyStep(q, a) ==
    /\ RowsInv /\ Busied(a) /\ Turn(a) = "strategy_advisor" /\ Turn(a) \in Gatherers
    /\ a.step = "collect" /\ a.todo = {} /\ a.scope.type = "organization"
    /\ a.known \subseteq Portfolios /\ a.left \subseteq Portfolios /\ a.within \subseteq Programs
    /\ a.got \subseteq Evidence /\ a.live \subseteq Portfolios \cup Programs
    /\ a.level \in {"project", "program", "portfolio"}
    /\ Units(a)
    /\ \A x \in a.got : x[1] = "analysis" => x[3] \in Linked
    /\ Turn(a) \in a.expected /\ a.got = {} => ObjectivePending(a)

LEMMA StrategyFacts ==
  ASSUME WorkspaceInv, NEW q \in Readers, ask[q] \in Request, AskOK(ask[q]),
         AskAt(q, "collect"), Turn(ask[q]) = "strategy_advisor", ask[q].todo = {}
  PROVE  StrategyStep(q, ask[q])
  <1> DEFINE a == ask[q]
  <1>1. a.step = "collect" /\ Units(a) /\ Gathering(a) /\ a.live \subseteq Portfolios \cup Programs
    BY DEF AskAt, AskOK, Request
  <1>2. ~ CallPending(a)
    BY DEF CallPending
  <1>3. /\ RowsInv /\ Busied(a) /\ Turn(a) \in Gatherers
        /\ a.scope.type = "organization"
        /\ a.known \subseteq Portfolios /\ a.left \subseteq Portfolios
        /\ a.within \subseteq Programs
        /\ a.got \subseteq Evidence
        /\ a.level \in {"project", "program", "portfolio"}
        /\ Turn(a) \in a.expected /\ a.got = {} => ObjectivePending(a)
    BY <1>1, <1>2, CollectFacts
  <1>4. \A x \in a.got : x[1] = "analysis" => x[3] \in Linked
    BY <1>1, <1>3 DEF Gathering
  <1> QED BY <1>1, <1>3, <1>4 DEF StrategyStep

\* Evidence grows by objectives only, and what was executed is known.
LEMMA StrategyGoesOn ==
  ASSUME NEW q \in Readers, NEW a \in Request, AskOK(a), StrategyStep(q, a),
         NEW n \in Request, Serves(a, n), n.step = "collect", n.todo = {},
         NEW more, n.got = a.got \cup more,
         \A x \in more : x[1] # "analysis", Units(n),
         Turn(a) \in a.expected /\ n.got = {} => ObjectivePending(n)
  PROVE  AskOK(n)
  <1>1. Turn(n) = Turn(a)
    BY DEF Serves, Turn
  <1>2. Gathering(n)
    BY <1>1 DEF StrategyStep, Gathering
  <1>3. \A x \in n.got : x \in a.got \/ Belongs(a.scope, x)
    BY DEF StrategyStep, Belongs
  <1> QED BY <1>1, <1>2, <1>3, ServesOK DEF StrategyStep

LEMMA ObjectiveItems ==
  ASSUME NEW unit \in Portfolios \cup Programs
  PROVE  /\ Objective(unit) \subseteq Evidence
         /\ \A x \in Objective(unit) : x[1] # "analysis"
         /\ unit \in Declaring => Objective(unit) # {}
  <1>1. <<"objective", unit, NoName>> \in {"objective"} \X (Portfolios \cup Programs) \X {NoName}
        /\ <<"objective", unit, NoName>>[1] # "analysis"
    OBVIOUS
  <1> QED BY <1>1 DEF Objective, Evidence

LEMMA ExecutedSame ==
  ASSUME NEW a, NEW n, NEW more, n.got = a.got \cup more, \A x \in more : x[1] # "analysis"
  PROVE  \A g : Executed(n, g) <=> Executed(a, g)
  BY DEF Executed

LEMMA PortfoliosListed ==
  ASSUME WorkspaceInv, NEW q \in Readers, ask[q] \in Request, AskOK(ask[q]), ListPortfolios(q)
  PROVE  \E n \in Request : AskOK(n) /\ Become(q, n)
  <1> DEFINE a == ask[q]
             own == {<<"projectObjective", m, NoName>> : m \in a.listed \cap DeclaringProjects}
             n == [a EXCEPT !.level = "program", !.known = portfolios, !.left = portfolios,
                            !.got = a.got \cup own]
  <1>1. /\ AskAt(q, "collect") /\ a.todo = {} /\ Turn(a) = "strategy_advisor"
        /\ a.level = "project" /\ Become(q, n)
    BY DEF ListPortfolios, Turn, Current
  <1>2. StrategyStep(q, a)
    BY <1>1, StrategyFacts
  <1>3. /\ own \subseteq Evidence /\ \A x \in own : x[1] # "analysis"
        /\ a.listed \cap DeclaringProjects # {} => own # {}
    <2>1. ASSUME NEW m \in a.listed
          PROVE  /\ <<"projectObjective", m, NoName>> \in Evidence
                 /\ <<"projectObjective", m, NoName>>[1] # "analysis"
      <3>1. m \in Names
        BY <2>1 DEF Request
      <3>2. <<"projectObjective", m, NoName>> \in {"projectObjective"} \X Names \X {NoName}
        BY <3>1
      <3> QED BY <3>2 DEF Evidence
    <2> QED BY <2>1
  <1> HIDE DEF own
  <1>4. n \in Request
    BY <1>2, <1>3 DEF StrategyStep, RowsInv, Request
  <1>5. /\ n.step = "collect" /\ Serves(a, n) /\ n.level = "program" /\ n.known = portfolios
        /\ n.left = portfolios /\ n.todo = {} /\ n.got = a.got \cup own
        /\ n.within = a.within /\ n.live = a.live
    BY <1>1 DEF AskAt, Request, Serves
  <1> HIDE DEF n
  <1>6. a.live = {} /\ a.within = {}
    BY <1>1, <1>2 DEF StrategyStep, Units
  <1>7. Units(n)
    BY <1>5, <1>6 DEF Units
  <1>8. ASSUME Turn(a) \in a.expected, n.got = {} PROVE ObjectivePending(n)
    <2>1. ObjectivePending(a) /\ a.listed \cap DeclaringProjects = {}
      BY <1>2, <1>3, <1>5, <1>8 DEF StrategyStep
    <2>2. \A u \in Programs : programs[u] # NoRow => programs[u] \in portfolios
      BY <1>2 DEF StrategyStep, RowsInv
    <2> QED BY <2>1, <2>2, <1>1, <1>5 DEF ObjectivePending
  <1>9. AskOK(n)
    BY <1>2, <1>3, <1>4, <1>5, <1>7, <1>8, StrategyGoesOn
  <1> QED BY <1>1, <1>4, <1>9

LEMMA UnitProgramsListed ==
  ASSUME WorkspaceInv, NEW q \in Readers, ask[q] \in Request, AskOK(ask[q]), ListUnitPrograms(q)
  PROVE  \E n \in Request : AskOK(n) /\ Become(q, n)
  <1> DEFINE a == ask[q]
  <1>1. PICK pf \in a.left :
           Become(q, [a EXCEPT !.left = a.left \ {pf}, !.within = ProgramsOf(pf),
              !.got = IF a.level = "portfolio" THEN a.got \cup Objective(pf) ELSE a.got])
    BY DEF ListUnitPrograms
  <1>2. AskAt(q, "collect") /\ a.step = "collect" /\ a.within = {} /\ a.level # "project"
    BY DEF ListUnitPrograms, AskAt
  <1>3. Turn(a) = "strategy_advisor" /\ a.todo = {}
    BY <1>1, <1>2, CollectFacts
  <1>4. StrategyStep(q, a)
    BY <1>2, <1>3, StrategyFacts
  <1> DEFINE more == IF a.level = "portfolio" THEN Objective(pf) ELSE {}
             n == [a EXCEPT !.left = a.left \ {pf}, !.within = ProgramsOf(pf),
                            !.got = a.got \cup more]
  <1>5. Become(q, n)
    BY <1>1
  <1>6. /\ pf \in Portfolios /\ ProgramsOf(pf) \in SUBSET Programs
        /\ \A g \in Programs : g \in ProgramsOf(pf) <=> programs[g] = pf
    BY <1>4 DEF StrategyStep, ProgramsOf
  <1>7. more \subseteq Evidence /\ \A x \in more : x[1] # "analysis"
    BY <1>6, ObjectiveItems
  <1>8. a.level = "portfolio" /\ pf \in Declaring => more # {}
    BY <1>6, ObjectiveItems
  <1> HIDE DEF more
  <1>9. n \in Request
    BY <1>6, <1>7 DEF Request
  <1>10. /\ n.step = "collect" /\ Serves(a, n) /\ n.level = a.level /\ n.known = a.known
         /\ n.left = a.left \ {pf} /\ n.todo = a.todo /\ n.got = a.got \cup more
         /\ n.within = ProgramsOf(pf) /\ n.live = a.live
    BY <1>2 DEF Request, Serves
  <1> HIDE DEF n
  <1>11. Turn(n) = Turn(a) /\ Busied(a)
    BY <1>4, <1>10 DEF Serves, Turn, StrategyStep
  <1>12. \A g : Executed(n, g) <=> Executed(a, g)
    BY <1>7, <1>10, ExecutedSame
  <1>13. Units(n)
    <2>1. /\ a.known \subseteq portfolios /\ a.left \subseteq a.known
          /\ \A g \in a.live \cap Programs : Executed(a, g)
          /\ \A g \in Programs :
               Executed(a, g) /\ programs[g] \in a.known =>
                  \/ g \in a.live
                  \/ a.level = "program" /\ (programs[g] \in a.left \/ g \in a.within)
          /\ \A pf2 \in a.live \cap Portfolios :
               a.level = "portfolio" /\ \E g \in Programs : programs[g] = pf2 /\ Executed(a, g)
          /\ a.level = "portfolio" =>
               \A g \in Programs :
                  Executed(a, g) /\ programs[g] \in a.known \ a.left =>
                     programs[g] \in a.live \/ g \in a.within
      BY <1>4 DEF StrategyStep, Units
    <2>2. \A g \in n.within : programs[g] \in n.known \ n.left
      BY <1>1, <1>6, <1>10, <2>1
    <2>3. \A g \in Programs :
               Executed(n, g) /\ programs[g] \in n.known =>
                  \/ g \in n.live
                  \/ n.level = "program" /\ (programs[g] \in n.left \/ g \in n.within)
      BY <1>2, <1>6, <1>10, <1>12, <2>1
    <2>4. n.level = "portfolio" =>
               \A g \in Programs :
                  Executed(n, g) /\ programs[g] \in n.known \ n.left =>
                     programs[g] \in n.live \/ g \in n.within
      BY <1>2, <1>6, <1>10, <1>12, <2>1
    <2>5. /\ n.level # "project" /\ n.known \subseteq portfolios /\ n.left \subseteq n.known
          /\ \A g \in n.live \cap Programs : Executed(n, g)
          /\ \A pf2 \in n.live \cap Portfolios :
               n.level = "portfolio" /\ \E g \in Programs : programs[g] = pf2 /\ Executed(n, g)
      BY <1>2, <1>10, <1>12, <2>1
    <2> QED BY <1>10, <2>2, <2>3, <2>4, <2>5 DEF Units
  <1>14. ASSUME Turn(a) \in a.expected, n.got = {} PROVE ObjectivePending(n)
    <2>1. ObjectivePending(a) /\ more = {}
      BY <1>4, <1>10, <1>14 DEF StrategyStep
    <2>2. a.level \in {"program", "portfolio"}
      BY <1>2, <1>4 DEF StrategyStep
    <2>3. CASE a.level = "program"
      BY <2>1, <2>3, <1>2, <1>6, <1>10 DEF ObjectivePending
    <2>4. CASE a.level = "portfolio"
      BY <2>1, <2>4, <1>8, <1>10 DEF ObjectivePending
    <2> QED BY <2>2, <2>3, <2>4
  <1>15. AskOK(n)
    BY <1>3, <1>4, <1>7, <1>9, <1>10, <1>13, <1>14, StrategyGoesOn
  <1> QED BY <1>5, <1>9, <1>15

\* A unit is live when one of its projects was executed.
LEMMA UnitProjectsListed ==
  ASSUME WorkspaceInv, NEW q \in Readers, ask[q] \in Request, AskOK(ask[q]), ListUnitProjects(q)
  PROVE  \E n \in Request : AskOK(n) /\ Become(q, n)
  <1> DEFINE a == ask[q]
             executed == {x[3] : x \in {y \in a.got : y[1] = "analysis"}}
             unit(g) == IF a.level = "program" THEN g ELSE programs[g]
             more(g) == IF a.level = "program" THEN Objective(g) ELSE {}
             live(g) == IF Members(g) \cap executed = {} THEN a.live ELSE a.live \cup {unit(g)}
  <1>1. PICK g \in a.within :
           IF ~ (Members(g) \subseteq a.listed) THEN Answer(q, "serverError", {})
           ELSE Become(q, [a EXCEPT !.within = a.within \ {g}, !.live = live(g),
                    !.got = IF a.level = "program" THEN a.got \cup Objective(g) ELSE a.got])
    BY DEF ListUnitProjects
  <1>2. CASE Answer(q, "serverError", {})
    BY <1>2, ErrorOK DEF Outcomes
  <1> DEFINE n == [a EXCEPT !.within = a.within \ {g}, !.live = live(g),
                            !.got = a.got \cup more(g)]
  <1>3. CASE Become(q, n)
    <2>1. AskAt(q, "collect") /\ a.step = "collect" /\ Turn(a) = "strategy_advisor"
      BY DEF ListUnitProjects, AskAt, Turn, Current
    <2>2. a.level # "project" /\ a.todo = {}
      BY <1>1, <2>1, CollectFacts
    <2>3. StrategyStep(q, a)
      BY <2>1, <2>2, StrategyFacts
    <2>4. g \in Programs /\ a.level \in {"program", "portfolio"}
      BY <2>2, <2>3 DEF StrategyStep
    <2>5. Members(g) \cap executed # {} <=> Executed(a, g)
      <3>1. \A x \in a.got : x[1] = "analysis" => x[3] \in Names
        BY <2>3 DEF StrategyStep, Linked
      <3> QED BY <3>1 DEF Members, Executed
    <2>6. /\ a.known \subseteq portfolios /\ a.left \subseteq a.known
          /\ \A h \in a.within : programs[h] \in a.known \ a.left
          /\ \A h \in a.live \cap Programs : Executed(a, h)
          /\ \A h \in Programs :
               Executed(a, h) /\ programs[h] \in a.known =>
                  \/ h \in a.live
                  \/ a.level = "program" /\ (programs[h] \in a.left \/ h \in a.within)
          /\ \A pf \in a.live \cap Portfolios :
               a.level = "portfolio" /\ \E h \in Programs : programs[h] = pf /\ Executed(a, h)
          /\ a.level = "portfolio" =>
               \A h \in Programs :
                  Executed(a, h) /\ programs[h] \in a.known \ a.left =>
                     programs[h] \in a.live \/ h \in a.within
      BY <2>3 DEF StrategyStep, Units
    <2>7. /\ a.level = "program" => unit(g) \in Programs /\ unit(g) \notin Portfolios
          /\ a.level = "portfolio" =>
               unit(g) = programs[g] /\ unit(g) \in Portfolios /\ unit(g) \notin Programs
      BY <1>1, <2>3, <2>4, <2>6, RowsAssumption DEF StrategyStep
    <2>8. /\ more(g) \subseteq Evidence /\ \A x \in more(g) : x[1] # "analysis"
          /\ a.level = "program" /\ g \in Declaring => more(g) # {}
      BY <2>4, ObjectiveItems
    <2>9. /\ live(g) \subseteq a.live \cup {unit(g)} /\ a.live \subseteq live(g)
          /\ unit(g) \in live(g) => Executed(a, g) \/ unit(g) \in a.live
          /\ Executed(a, g) => unit(g) \in live(g)
      BY <2>5
    <2>10. unit(g) \in Portfolios \cup Programs /\ (a.level = "program" => unit(g) = g)
      BY <2>4, <2>7
    <2> HIDE DEF live, more, unit, executed
    <2>11. live(g) \in SUBSET (Portfolios \cup Programs)
      BY <2>3, <2>9, <2>10 DEF StrategyStep
    <2>12. n \in Request
      BY <2>8, <2>11 DEF Request
    <2>13. /\ n.step = "collect" /\ Serves(a, n) /\ n.level = a.level /\ n.known = a.known
           /\ n.left = a.left /\ n.todo = a.todo /\ n.got = a.got \cup more(g)
           /\ n.within = a.within \ {g} /\ n.live = live(g)
      BY <2>1 DEF Request, Serves
    <2> HIDE DEF n
    <2>14. \A h : Executed(n, h) <=> Executed(a, h)
      BY <2>8, <2>13, ExecutedSame
    <2>15. \A h \in n.live \cap Programs : Executed(n, h)
      BY <2>4, <2>6, <2>7, <2>9, <2>10, <2>13, <2>14
    <2>16. \A h \in Programs :
               Executed(n, h) /\ programs[h] \in n.known =>
                  \/ h \in n.live
                  \/ n.level = "program" /\ (programs[h] \in n.left \/ h \in n.within)
      BY <2>4, <2>6, <2>9, <2>10, <2>13, <2>14
    <2>17. \A pf \in n.live \cap Portfolios :
               n.level = "portfolio" /\ \E h \in Programs : programs[h] = pf /\ Executed(n, h)
      BY <2>4, <2>6, <2>7, <2>9, <2>13, <2>14
    <2>18. n.level = "portfolio" =>
               \A h \in Programs :
                  Executed(n, h) /\ programs[h] \in n.known \ n.left =>
                     programs[h] \in n.live \/ h \in n.within
      BY <2>4, <2>6, <2>7, <2>9, <2>13, <2>14
    <2>19. /\ n.level # "project" /\ n.known \subseteq portfolios /\ n.left \subseteq n.known
           /\ \A h \in n.within : programs[h] \in n.known \ n.left
      BY <2>2, <2>6, <2>13
    <2>20. Units(n)
      BY <2>13, <2>15, <2>16, <2>17, <2>18, <2>19 DEF Units
    <2>21. ASSUME Turn(a) \in a.expected, n.got = {} PROVE ObjectivePending(n)
      <3>1. ObjectivePending(a) /\ more(g) = {}
        BY <2>3, <2>13, <2>21 DEF StrategyStep
      <3> QED BY <3>1, <2>4, <2>8, <2>13 DEF ObjectivePending
    <2>22. AskOK(n)
      BY <2>2, <2>3, <2>8, <2>12, <2>13, <2>20, <2>21, StrategyGoesOn
    <2> QED BY <1>3, <2>12, <2>22
  <1>4. Answer(q, "serverError", {}) \/ Become(q, n)
    BY <1>1
  <1> QED BY <1>2, <1>3, <1>4

LEMMA ListedAgain ==
  ASSUME WorkspaceInv, NEW q \in Readers, ask[q] \in Request, AskOK(ask[q]), ListAgain(q)
  PROVE  \E n \in Request : AskOK(n) /\ Become(q, n)
  <1> DEFINE a == ask[q]
             n == [a EXCEPT !.level = "portfolio", !.left = a.known]
  <1>1. /\ AskAt(q, "collect") /\ a.step = "collect" /\ a.level = "program" /\ a.left = {}
        /\ a.within = {} /\ Become(q, n)
    BY DEF ListAgain, AskAt
  <1>2. Turn(a) = "strategy_advisor" /\ a.todo = {}
    BY <1>1, CollectFacts
  <1>3. StrategyStep(q, a)
    BY <1>1, <1>2, StrategyFacts
  <1>4. n \in Request
    BY DEF Request
  <1>5. /\ n.step = "collect" /\ Serves(a, n) /\ n.level = "portfolio" /\ n.known = a.known
        /\ n.left = a.known /\ n.todo = a.todo /\ n.got = a.got \cup {}
        /\ n.within = a.within /\ n.live = a.live
    BY <1>1 DEF Request, Serves
  <1> HIDE DEF n
  <1>6. \A g : Executed(n, g) <=> Executed(a, g)
    BY <1>5 DEF Executed
  <1>7. Units(n)
    BY <1>1, <1>3, <1>5, <1>6 DEF Units, StrategyStep
  <1>8. ASSUME Turn(a) \in a.expected, n.got = {} PROVE ObjectivePending(n)
    <2>1. ObjectivePending(a)
      BY <1>3, <1>5, <1>8 DEF StrategyStep
    <2> QED BY <2>1, <1>1, <1>5 DEF ObjectivePending
  <1>9. AskOK(n)
    BY <1>2, <1>3, <1>4, <1>5, <1>7, <1>8, StrategyGoesOn
  <1> QED BY <1>1, <1>4, <1>9

-----------------------------------------------------------------------------
(* The answers. *)

LEMMA EvidenceCollected ==
  ASSUME WorkspaceInv, NEW q \in Readers, ask[q] \in Request, AskOK(ask[q]), Collected(q)
  PROVE  \E n \in Request : AskOK(n) /\ Become(q, n)
  <1> DEFINE a == ask[q]
             n == [a EXCEPT !.step = "run"]
  <1>1. /\ a.step = "collect" /\ a.todo = {} /\ a.left = {} /\ a.within = {} /\ Become(q, n)
        /\ Turn(a) = "strategy_advisor" => a.level = "portfolio"
    BY DEF Collected, AskAt, Turn, Current
  <1>2. n \in Request
    BY AskNames DEF Request
  <1>3. /\ n.step = "run" /\ Serves(a, n) /\ n.got = a.got /\ n.todo = a.todo /\ n.left = a.left
        /\ n.within = a.within /\ n.level = a.level /\ n.known = a.known /\ n.live = a.live
    BY DEF Request, Serves
  <1> HIDE DEF n
  <1>4. Turn(n) = Turn(a) /\ Busied(a)
    BY <1>1, <1>3, CollectFacts DEF Serves, Turn
  <1>5. Gathering(n)
    BY <1>3, <1>4 DEF Gathering, Serves, AskOK
  <1>6. \A g : Executed(n, g) <=> Executed(a, g)
    BY <1>3 DEF Executed
  <1>7. Units(n)
    BY <1>1, <1>3, <1>4, <1>6 DEF Units, AskOK
  <1>8. Turn(a) \in a.expected => a.got # {}
    BY <1>1, CollectFacts DEF CallPending, MemberPending, ObjectivePending
  <1>9. AskOK(n)
    BY <1>1, <1>2, <1>3, <1>5, <1>7, <1>8, ServesOK
  <1> QED BY <1>1, <1>2, <1>9

\* The next advisor of the queue starts with nothing.
LEMMA NextAdvisor ==
  ASSUME NEW q \in Readers, ask[q] \in Request, AskOK(ask[q]), AskAt(q, "run"),
         NEW withEvidence \in BOOLEAN, NEW cites \in SUBSET ask[q].got,
         AfterAdvisor(q, withEvidence, cites),
         withEvidence \/ (cites = {} /\ ask[q].got = {})
  PROVE  \E n \in Request : AskOK(n) /\ Become(q, n)
  <1> DEFINE a == ask[q]
             advisor == Turn(a)
             had == IF withEvidence THEN a.had \cup {advisor} ELSE a.had
             cited == a.cited \cup ({advisor} \X cites)
             step == CASE a.op = "advisor" -> "answered"
                       [] a.op # "advisor" /\ Len(a.queue) > 1 -> "provision"
                       [] OTHER -> "conclude"
             outcome == IF a.op = "advisor" THEN "complete" ELSE a.outcome
             n == [a EXCEPT !.queue = Tail(a.queue), !.got = {}, !.context = {}, !.listed = {},
                            !.known = {}, !.live = {}, !.level = "project", !.ran = a.ran \cup {advisor},
                            !.had = had, !.cited = cited, !.step = step, !.outcome = outcome]
  <1>1. Become(q, n)
    BY DEF AfterAdvisor, Current, Turn
  <1>2. a.step = "run" /\ a \in Request
    BY DEF AskAt
  <1>3. advisor \in Advisors
    BY <1>2, TurnFits
  <1>4. /\ a.queue \in Seq(Advisors) /\ a.queue # <<>> /\ a.outcome = "none"
        /\ a.todo = {} /\ a.left = {} /\ a.within = {}
    BY <1>2 DEF Request, AskOK, Routed, Fresh
  <1>5. /\ Tail(a.queue) \in Seq(Advisors)
        /\ \A i \in DOMAIN Tail(a.queue) :
              i + 1 \in DOMAIN a.queue /\ Tail(a.queue)[i] = a.queue[i + 1]
        /\ Len(a.queue) > 1 => Tail(a.queue) # <<>>
    <2>1. a.queue \in Seq(Advisors) /\ a.queue # <<>>
      BY <1>4
    <2> HIDE DEF a
    <2>2. /\ Tail(a.queue) \in Seq(Advisors) /\ Len(Tail(a.queue)) = Len(a.queue) - 1
          /\ Len(a.queue) \in Nat /\ DOMAIN a.queue = 1 .. Len(a.queue)
          /\ DOMAIN Tail(a.queue) = 1 .. Len(a.queue) - 1
          /\ \A i \in 1 .. Len(a.queue) - 1 : Tail(a.queue)[i] = a.queue[i + 1]
      BY <2>1
    <2>3. Len(a.queue) > 1 => Len(Tail(a.queue)) > 0
      BY <2>2
    <2>4. Len(a.queue) > 1 => Tail(a.queue) # <<>>
      <3>1. \A rest \in Seq(Advisors) : Len(rest) > 0 => rest # <<>>
        OBVIOUS
      <3> QED BY <2>2, <2>3, <3>1
    <2>5. \A i \in DOMAIN Tail(a.queue) :
              i + 1 \in DOMAIN a.queue /\ Tail(a.queue)[i] = a.queue[i + 1]
      BY <2>2
    <2> QED BY ONLY <2>2, <2>4, <2>5
  <1>6. /\ step \in {"answered", "provision", "conclude"}
        /\ step = "provision" => Len(a.queue) > 1
        /\ outcome \in {"none", "complete"} /\ (step # "answered" => outcome = "none")
    <2>1. CASE a.op = "advisor"
      BY <2>1
    <2>2. CASE a.op # "advisor" /\ Len(a.queue) > 1
      BY <2>2, <1>4
    <2>3. CASE a.op # "advisor" /\ ~ (Len(a.queue) > 1)
      BY <2>3, <1>4
    <2> QED BY <2>1, <2>2, <2>3
  <1>7. had \in SUBSET Advisors /\ a.had \subseteq had
    BY <1>2, <1>3 DEF Request
  <1>8. cited \in SUBSET (Advisors \X Evidence)
    BY <1>2, <1>3 DEF Request
  <1>9. \A c \in cited : c \in a.cited \/ (c[1] = advisor /\ c[2] \in cites)
    OBVIOUS
  <1>10. withEvidence => advisor \in had
    OBVIOUS
  <1> HIDE DEF step, outcome, had, cited
  <1>11. n \in Request
    <2>1. step \in AskSteps
      BY <1>6, AskNames
    <2>2. a.ran \cup {advisor} \in SUBSET Advisors
      BY <1>2, <1>3 DEF Request
    <2> QED BY <1>2, <1>5, <1>6, <1>7, <1>8, <2>1, <2>2 DEF Request
  <1>12. /\ n.step = step /\ n.outcome = outcome /\ n.had = had /\ n.cited = cited
         /\ n.queue = Tail(a.queue) /\ n.got = {} /\ n.listed = {} /\ n.known = {} /\ n.live = {}
         /\ n.context = {}
         /\ n.level = "project" /\ n.ran = a.ran \cup {advisor}
         /\ n.todo = a.todo /\ n.left = a.left /\ n.within = a.within
         /\ n.scope = a.scope /\ n.name = a.name /\ n.op = a.op /\ n.expected = a.expected
    BY <1>2 DEF Request
  <1> HIDE DEF n
  <1>13. Routed(n)
    BY <1>2, <1>5, <1>6, <1>12 DEF AskOK, Routed
  <1>14. Fresh(n)
    BY <1>4, <1>12 DEF Fresh
  <1>15. InItsScope(n)
    <2>1. \A x \in a.got \cup {c[2] : c \in a.cited} : Belongs(a.scope, x)
      BY DEF AskOK, InItsScope
    <2>2. ASSUME NEW c \in n.cited PROVE Belongs(a.scope, c[2])
      <3>1. c \in a.cited \/ c[2] \in a.got
        BY <1>9, <1>12
      <3> QED BY <2>1, <3>1
    <2> QED BY <2>2, <1>12 DEF InItsScope
  <1>16. Gathering(n) /\ Units(n)
    BY <1>6, <1>12 DEF Gathering, Units, Busied
  <1>17. Hopeful(n)
    <2>1. n.step \notin {"run", "collect"}
      BY <1>6, <1>12
    <2>2. \A i \in DOMAIN a.queue :
             a.queue[i] \in a.expected => HasEvidence(a.queue[i], a.scope, a.name)
      BY <1>2 DEF AskOK, Hopeful
    <2>3. \A i \in DOMAIN n.queue :
             n.queue[i] \in n.expected => HasEvidence(n.queue[i], n.scope, n.name)
      BY <2>2, <1>5, <1>12
    <2> QED BY <2>1, <2>3 DEF Hopeful
  <1>18. Grounded(n)
    <2>1. /\ a.ran \cap a.expected \subseteq a.had /\ Sources(a.cited) \subseteq a.had
          /\ Turn(a) \in a.expected => a.got # {}
      BY <1>2 DEF AskOK, Grounded, Hopeful
    <2>2. n.ran \cap n.expected \subseteq n.had
      BY <2>1, <1>7, <1>10, <1>12
    <2>3. ASSUME NEW c \in n.cited PROVE c[1] \in n.had
      <3>1. CASE c \in a.cited
        BY <3>1, <2>1, <1>7, <1>12 DEF Sources
      <3>2. CASE c[1] = advisor /\ c[2] \in cites
        BY <3>2, <1>10, <1>12
      <3> QED BY <3>1, <3>2, <1>9, <1>12
    <2>4. n.outcome # "collectionEmpty"
      BY <1>6, <1>12
    <2> QED BY <2>2, <2>3, <2>4 DEF Grounded, Sources
  <1> QED BY <1>1, <1>11, <1>13, <1>14, <1>15, <1>16, <1>17, <1>18 DEF AskOK

LEMMA AdvisorAnswers ==
  ASSUME NEW q \in Readers, ask[q] \in Request, AskOK(ask[q]),
         AnswerWithoutEvidence(q) \/ CallAdvisor(q) \/ InvalidAdvice(q) \/ Conclude(q)
  PROVE  \E n \in Request : AskOK(n) /\ Become(q, n)
  <1>1. CASE AnswerWithoutEvidence(q)
    <2>1. {} \in SUBSET ask[q].got /\ FALSE \in BOOLEAN
      OBVIOUS
    <2> QED BY <1>1, <2>1, NextAdvisor DEF AnswerWithoutEvidence
  <1>2. CASE CallAdvisor(q)
    <2>1. PICK cites \in Citable(ask[q].got) : AfterAdvisor(q, TRUE, cites)
      BY <1>2 DEF CallAdvisor
    <2>2. cites \in SUBSET ask[q].got /\ TRUE \in BOOLEAN
      BY DEF Citable
    <2>3. AskAt(q, "run")
      BY <1>2 DEF CallAdvisor
    <2> QED BY <2>1, <2>2, <2>3, NextAdvisor
  <1>3. CASE InvalidAdvice(q)
    BY <1>3, ErrorOK DEF InvalidAdvice, Outcomes
  <1>4. CASE Conclude(q)
    <2> DEFINE outcome == IF ask[q].had = {} THEN "collectionEmpty" ELSE "complete"
    <2>1. Answer(q, outcome, {}) /\ outcome \in Outcomes
          /\ (outcome = "collectionEmpty" => ask[q].had = {})
      BY <1>4 DEF Conclude, Outcomes
    <2> HIDE DEF outcome
    <2> QED BY <2>1, AnswerOK
  <1> QED BY <1>1, <1>2, <1>3, <1>4

-----------------------------------------------------------------------------
(* The views. *)

LEMMA ViewResolved ==
  ASSUME NEW q \in Readers, ask[q] \in Request, AskOK(ask[q]), ResolveProjectScope(q)
  PROVE  \E n \in Request : AskOK(n) /\ Become(q, n)
  <1> DEFINE a == ask[q]
             project == [type |-> "project", id |-> Strip(a.name)]
             kept == [a EXCEPT !.step = "read"]
             found == [a EXCEPT !.step = "read", !.scope = project]
  <1>1. a.step = "resolve"
    BY DEF ResolveProjectScope, AskAt
  <1>2. \/ Answer(q, "notFound", {}) \/ Answer(q, "conflict", {})
        \/ Become(q, kept)
        \/ /\ a.scope.type # "project" /\ ~ Blank(a.name) /\ projects[Strip(a.name)] # NoRow
           /\ Become(q, found)
    BY DEF ResolveProjectScope
  <1>3. CASE Answer(q, "notFound", {}) \/ Answer(q, "conflict", {})
    BY <1>3, ErrorOK DEF Outcomes
  <1>4. ASSUME NEW n \in Request, Become(q, n), n.step = "read", n.op = a.op, n.name = a.name,
               n.queue = a.queue, n.outcome = a.outcome, n.got = a.got, n.cited = a.cited,
               n.context = a.context,
               n.listed = a.listed, n.level = a.level, n.known = a.known, n.live = a.live,
               n.todo = a.todo, n.left = a.left, n.within = a.within, n.ran = a.ran,
               n.had = a.had, n.expected = a.expected,
               n.scope = a.scope \/ (n.scope.type = "project" /\ a.queue = <<>> /\ a.cited = {})
        PROVE  \E m \in Request : AskOK(m) /\ Become(q, m)
    <2>1. Routed(n)
      BY <1>1, <1>4 DEF AskOK, Routed
    <2>2. Fresh(n)
      BY <1>1, <1>4 DEF AskOK, Fresh
    <2>3. InItsScope(n)
      BY <1>1, <1>4 DEF AskOK, InItsScope, Fresh
    <2>4. Gathering(n) /\ Units(n) /\ Hopeful(n)
      BY <1>4 DEF Gathering, Units, Hopeful, Busied
    <2>5. Grounded(n)
      BY <1>4 DEF AskOK, Grounded
    <2> QED BY <1>4, <2>1, <2>2, <2>3, <2>4, <2>5 DEF AskOK
  <1>5. CASE Become(q, kept)
    <2>1. kept \in Request
      BY AskNames DEF Request
    <2>2. /\ kept.step = "read" /\ kept.op = a.op /\ kept.name = a.name
          /\ kept.queue = a.queue /\ kept.outcome = a.outcome /\ kept.got = a.got
          /\ kept.cited = a.cited /\ kept.context = a.context
          /\ kept.listed = a.listed /\ kept.level = a.level /\ kept.known = a.known
          /\ kept.live = a.live
          /\ kept.todo = a.todo /\ kept.left = a.left /\ kept.within = a.within /\ kept.ran = a.ran
          /\ kept.had = a.had /\ kept.expected = a.expected /\ kept.scope = a.scope
      BY DEF Request
    <2> HIDE DEF kept
    <2> QED BY <1>4, <1>5, <2>1, <2>2
  <1>6. CASE /\ ~ Blank(a.name) /\ projects[Strip(a.name)] # NoRow
             /\ Become(q, found)
    <2>1. a.name \in Names
      BY <1>6, NameFacts DEF Request
    <2>2. project \in Scopes /\ project.type = "project"
      BY <2>1, <1>6, NameFacts DEF Scopes
    <2>3. a.queue = <<>> /\ a.cited = {}
      BY <1>1 DEF AskOK, Routed
    <2> HIDE DEF project
    <2>4. found \in Request
      BY <2>2, AskNames DEF Request
    <2>5. /\ found.step = "read" /\ found.op = a.op /\ found.name = a.name
          /\ found.queue = a.queue /\ found.outcome = a.outcome /\ found.got = a.got
          /\ found.cited = a.cited /\ found.context = a.context
          /\ found.listed = a.listed /\ found.level = a.level /\ found.known = a.known
          /\ found.live = a.live
          /\ found.todo = a.todo /\ found.left = a.left /\ found.within = a.within
          /\ found.ran = a.ran
          /\ found.had = a.had /\ found.expected = a.expected /\ found.scope = project
      BY DEF Request
    <2> HIDE DEF found
    <2> QED BY <1>4, <1>6, <2>2, <2>3, <2>4, <2>5
  <1> QED BY <1>2, <1>3, <1>5, <1>6

\* What a view shows of some analyses is some of them.
LEMMA ShownOf ==
  ASSUME NEW view \in Views \ {"detail"}, NEW rows
  PROVE  Shown(view, rows) \subseteq rows
  <1>1. \A kind : Structured(rows, kind) \subseteq rows
    BY DEF Structured
  <1>2. \A some : Newest(some) \subseteq some
    BY DEF Newest
  <1>3. UNION {Newest(Structured(rows, "risk") \cap Rows({n})) : n \in Names} \subseteq rows
    BY <1>1, <1>2
  <1>4. view \in {"analyses", "summary"} \/ view = "actionItems" \/ view = "latestRisks"
        \/ view = "portfolioSummary"
    BY DEF Views
  <1>5. CASE view \in {"analyses", "summary"}
    BY <1>5 DEF Shown
  <1>6. CASE view = "actionItems"
    BY <1>6, <1>1 DEF Shown
  <1>7. CASE view = "latestRisks"
    BY <1>7, <1>3 DEF Shown
  <1>8. CASE view = "portfolioSummary"
    BY <1>8 DEF Shown
  <1> QED BY <1>4, <1>5, <1>6, <1>7, <1>8

\* An analysis shown under the project it belongs to was typed for it.
LEMMA RowsShown ==
  ASSUME RowsInv, NEW i \in Rows(Names)
  PROVE  LET x == <<"analysis", i, analyses[i].project>>
         IN  /\ x \in Evidence /\ x[1] = "analysis" /\ x[2] = i /\ x[3] = analyses[i].project
             /\ i \in DOMAIN analyses /\ analyses[i].org = "own"
             /\ analyses[i].project = ProjectFor(analyses[i].typed)
             /\ Strip(analyses[i].project) = analyses[i].project
  <1>1. i \in DOMAIN analyses /\ analyses[i].org = "own"
    BY DEF Rows
  <1>2. analyses[i].project = ProjectFor(analyses[i].typed)
    BY <1>1 DEF RowsInv, Filed
  <1>3. i \in Nat /\ analyses[i].project \in Names
    BY <1>1, RowTypes
  <1>4. <<"analysis", i, analyses[i].project>> \in {"analysis"} \X Nat \X Names
    BY <1>3
  <1>5. Strip(analyses[i].project) = analyses[i].project
    <2>1. analyses[i].typed \in Names
      BY <1>1, RowTypes
    <2> QED BY <1>2, <2>1, NameFacts
  <1> QED BY <1>1, <1>2, <1>4, <1>5 DEF Evidence

\* A view shows rows of the projects of its scope.
LEMMA ViewRead ==
  ASSUME WorkspaceInv, NEW q \in Readers, ask[q] \in Request, AskOK(ask[q]), ReadView(q)
  PROVE  \E n \in Request : AskOK(n) /\ Become(q, n)
  <1> DEFINE a == ask[q]
             inProjects == CASE a.scope.type = "project" -> {a.scope.id}
                             [] a.scope.type = "name" ->
                                  IF a.op = "analyses" /\ ~ Blank(a.name) THEN {}
                                  ELSE ProjectsNamed(a.name)
                             [] OTHER -> Names
             shown == {<<"analysis", i, analyses[i].project>> : i \in Shown(a.op, Rows(inProjects))}
  <1>1. a.step = "read" /\ a.op \in Views \ {"detail"} /\ Answer(q, "complete", shown)
    BY DEF ReadView, AskAt, AskOK, Routed
  <1>2. /\ RowsInv /\ a.scope.type \in {"name", "project", "organization"}
        /\ a.scope.type = "name" => a.name = a.scope.id
        /\ a.name \in Names \cup {Elsewhere} /\ a.scope \in Scopes
    BY <1>1, AskNames DEF WorkspaceInv, AskOK, Routed, Request
  <1>3. /\ a.scope.type = "project" => inProjects = {a.scope.id}
        /\ a.scope.type = "name" => inProjects \subseteq ProjectsNamed(a.name)
    BY <1>2
  <1> HIDE DEF inProjects
  <1>4. ASSUME NEW x \in shown PROVE x \in Evidence /\ Belongs(a.scope, x)
    <2>1. PICK i \in Shown(a.op, Rows(inProjects)) : x = <<"analysis", i, analyses[i].project>>
      OBVIOUS
    <2>2. i \in Rows(inProjects)
      BY <1>1, <2>1, ShownOf
    <2>3. i \in Rows(Names) /\ analyses[i].project \in inProjects
      BY <1>2, <2>2, RowTypes DEF Rows
    <2>4. /\ x \in Evidence /\ x[1] = "analysis" /\ x[2] = i /\ x[3] = analyses[i].project
          /\ i \in DOMAIN analyses /\ analyses[i].org = "own"
          /\ analyses[i].project = ProjectFor(analyses[i].typed)
          /\ Strip(analyses[i].project) = analyses[i].project
      BY <1>2, <2>1, <2>3, RowsShown
    <2>5. a.scope.type = "project" => ProjectFor(analyses[i].typed) = Strip(a.scope.id)
      BY <1>3, <2>3, <2>4
    <2>6. a.scope.type = "name" /\ ~ Blank(a.scope.id) =>
            ProjectFor(analyses[i].typed) = Strip(a.scope.id)
      BY <1>2, <1>3, <2>3, <2>4 DEF ProjectsNamed
    <2>7. InScope(a.scope, x)
      BY <1>2, <2>4, <2>5, <2>6 DEF InScope
    <2> QED BY <1>2, <2>4, <2>7 DEF Belongs
  <1> HIDE DEF shown
  <1>5. shown \in SUBSET Evidence /\ "complete" \in Outcomes
    BY <1>4 DEF Outcomes
  <1> QED BY <1>1, <1>4, <1>5, AnswerOK

LEMMA AnalysisRead ==
  ASSUME WorkspaceInv, NEW q \in Readers, ask[q] \in Request, AskOK(ask[q]), ReadAnalysis(q)
  PROVE  \E n \in Request : AskOK(n) /\ Become(q, n)
  <1> DEFINE a == ask[q]
  <1>1. PICK i \in DOMAIN analyses :
           IF i \in Rows(Names)
           THEN Answer(q, "complete", {<<"analysis", i, analyses[i].project>>})
           ELSE Answer(q, "notFound", {})
    BY DEF ReadAnalysis
  <1>2. CASE i \notin Rows(Names)
    BY <1>1, <1>2, ErrorOK DEF Outcomes
  <1>3. CASE i \in Rows(Names)
    <2> DEFINE x == <<"analysis", i, analyses[i].project>>
    <2>1. RowsInv
      BY DEF WorkspaceInv
    <2>2. /\ x \in Evidence /\ x[1] = "analysis" /\ x[2] = i /\ x[3] = analyses[i].project
          /\ i \in DOMAIN analyses /\ analyses[i].org = "own"
          /\ analyses[i].project = ProjectFor(analyses[i].typed)
          /\ Strip(analyses[i].project) = analyses[i].project
      BY <1>3, <2>1, RowsShown
    <2>3. a.scope.type = "organization"
      BY DEF ReadAnalysis, AskAt, AskOK, Routed
    <2> HIDE DEF x
    <2>4. InScope(a.scope, x)
      BY <2>2, <2>3 DEF InScope
    <2>5. Belongs(a.scope, x)
      BY <2>2, <2>3, <2>4 DEF Belongs
    <2>6. Answer(q, "complete", {x}) /\ {x} \in SUBSET Evidence /\ "complete" \in Outcomes
      BY <1>1, <1>3, <2>2 DEF x, Outcomes
    <2> QED BY <2>5, <2>6, AnswerOK
  <1> QED BY <1>2, <1>3

-----------------------------------------------------------------------------
(* Every step. *)

\* Every step of a request that reads.
LEMMA AskContinues ==
  ASSUME WorkspaceInv, NEW q \in Readers, ask[q] \in Request, AskOK(ask[q]), ContinueAsk(q)
  PROVE  \E n \in Request : AskOK(n) /\ Become(q, n)
  <1> DEFINE Goal == \E n \in Request : AskOK(n) /\ Become(q, n)
  <1>1. CASE ResolveDeclaredScope(q)
    BY <1>1, ScopeResolved
  <1>2. CASE \/ ProvisionByProject(q) \/ ProvisionByDocuments(q) \/ ProvisionByPortfolio(q)
             \/ ProvisionByOrganization(q)
    BY <1>2, ProjectProvisioned, DocumentsProvisioned, PortfolioProvisioned,
       OrganizationProvisioned
  <1>3. CASE GatherProject(q) \/ ListProjects(q)
    BY <1>3, ProjectGathered, ProjectsListed
  <1>4. CASE \/ ListPortfolios(q) \/ ListUnitPrograms(q) \/ ListUnitProjects(q) \/ ListAgain(q)
    BY <1>4, PortfoliosListed, UnitProgramsListed, UnitProjectsListed, ListedAgain
  <1>5. CASE Collected(q)
    BY <1>5, EvidenceCollected
  <1>6. CASE AnswerWithoutEvidence(q) \/ CallAdvisor(q) \/ InvalidAdvice(q) \/ Conclude(q)
    BY <1>6, AdvisorAnswers
  <1>7. CASE ResolveProjectScope(q) \/ ReadView(q) \/ ReadAnalysis(q)
    BY <1>7, ViewResolved, ViewRead, AnalysisRead
  <1>8. CASE Reply(q) \/ FailAsk(q)
    BY <1>8, QuietOK DEF Reply, FailAsk
  <1> QED BY <1>1, <1>2, <1>3, <1>4, <1>5, <1>6, <1>7, <1>8 DEF ContinueAsk

\* The steps of one request, seen by all.
LEMMA ReaderMoves ==
  ASSUME AdviceInv, NEW q \in Readers, NEW n \in Request, AskOK(n), Become(q, n)
  PROVE  AdviceInv'
  <1>1. /\ UNCHANGED <<portfolios, programs, projects, analyses, work>>
        /\ ask' = [ask EXCEPT ![q] = n]
    BY DEF Become, workspaceVars, rowVars
  <1>2. RowsInv' /\ RowsInv /\ Grows
    BY <1>1 DEF AdviceInv, WorkspaceInv, RowsInv, Grows, Filed, Linked
  <1>3. WorkspaceInv'
    <2>1. \A w \in Writers : WriterOK(w)'
      BY <1>1 DEF AdviceInv, WorkspaceInv, WriterOK
    <2> QED BY <1>1, <1>2, <2>1 DEF AdviceInv, WorkspaceInv
  <1>4. ask' \in [Readers -> Request]
    BY <1>1 DEF AdviceInv
  <1>5. ASSUME NEW r \in Readers PROVE AskOK(ask[r])'
    <2>1. PICK a \in Request : ask'[r] = a /\ AskOK(a)
      BY <1>1 DEF AdviceInv
    <2>2. AskOK(a)'
      BY <1>2, <2>1, GrowthKeepsAsks
    <2> QED BY <2>1, <2>2
  <1> QED BY <1>3, <1>4, <1>5 DEF AdviceInv

LEMMA WriterMakesAdviceGrow ==
  ASSUME AdviceInv, WorkspaceInv', Grows, UNCHANGED ask
  PROVE  AdviceInv'
  <1>1. RowsInv /\ RowsInv'
    BY DEF AdviceInv, WorkspaceInv
  <1>2. ASSUME NEW r \in Readers PROVE AskOK(ask[r])'
    <2>1. PICK a \in Request : ask'[r] = a /\ AskOK(a)
      BY DEF AdviceInv
    <2>2. AskOK(a)'
      BY <1>1, <2>1, GrowthKeepsAsks
    <2> QED BY <2>1, <2>2
  <1> QED BY <1>2 DEF AdviceInv

LEMMA AdviceInitInv == AdviceInit => AdviceInv
  <1>1. SUFFICES ASSUME AdviceInit PROVE AdviceInv
    OBVIOUS
  <1>2. WorkspaceInv
    BY <1>1, WorkspaceInitially DEF AdviceInit
  <1>3. ask = [q \in Readers |-> Quiet]
    BY <1>1 DEF AdviceInit
  <1> QED BY <1>2, <1>3, QuietOK DEF AdviceInv

LEMMA AdviceStepInv == AdviceInv /\ [AdviceNext]_adviceVars => AdviceInv'
  <1>1. SUFFICES ASSUME AdviceInv, [AdviceNext]_adviceVars PROVE AdviceInv'
    OBVIOUS
  <1>2. WorkspaceInv /\ \A q \in Readers : ask[q] \in Request /\ AskOK(ask[q])
    BY <1>1 DEF AdviceInv
  <1>3. ASSUME NEW q \in Readers, BeginSomeAsk(q) PROVE AdviceInv'
    BY <1>1, <1>3, SelectionStarts, ReaderMoves
  <1>4. ASSUME NEW q \in Readers, ContinueAsk(q) PROVE AdviceInv'
    BY <1>1, <1>2, <1>4, AskContinues, ReaderMoves
  <1>5. ASSUME NEW w \in Writers, BeginSomeWork(w) \/ ContinueWork(w), UNCHANGED ask
        PROVE  AdviceInv'
    BY <1>1, <1>2, <1>5, WriterBegins, WriterContinues, WriterMakesAdviceGrow
  <1>6. ASSUME NEW name \in Names, NEW program \in Programs, AttachProject(name, program),
               UNCHANGED ask
        PROVE  AdviceInv'
    BY <1>1, <1>2, <1>6, ProjectAttached, WriterMakesAdviceGrow
  <1>7. CASE UNCHANGED adviceVars
    <2>1. UNCHANGED <<portfolios, programs, projects, analyses, work, ask>>
      BY <1>7 DEF adviceVars, workspaceVars, rowVars
    <2>2. WorkspaceInv' /\ Grows
      BY <1>2, <2>1 DEF WorkspaceInv, RowsInv, Grows, Filed, Linked, WriterOK
    <2> QED BY <1>1, <2>1, <2>2, WriterMakesAdviceGrow
  <1> QED BY <1>1, <1>3, <1>4, <1>5, <1>6, <1>7 DEF AdviceNext

LEMMA AdviceInvariant == AdviceSpec => []AdviceInv
  BY AdviceInitInv, AdviceStepInv, PTL DEF AdviceSpec

-----------------------------------------------------------------------------
(* The theorems. *)

LEMMA BelongsMeansInScope ==
  ASSUME NEW scope, NEW x \in Evidence, Belongs(scope, x)
  PROVE  InScope(scope, x)
  <1>1. x[1] \in {"analysis", "objective", "projectObjective", "chunk"}
    BY DEF Evidence
  <1>2. CASE x[1] = "analysis"
    BY <1>2 DEF Belongs
  <1>3. CASE x[1] \in {"objective", "projectObjective", "chunk"}
    BY <1>3 DEF Belongs, InScope
  <1> QED BY <1>1, <1>2, <1>3

\* Whatever is written between two of its queries, nothing a request was
\* given, cited or showed is another organization's, was typed for a project of
\* another name than the one it is presented under, or is outside the scope
\* asked for: collection starts from rows of the scope, and rows are never
\* moved.  The chunks of the risk advisor's own route are no evidence, and no
\* request that declares a scope for several advisors is given such chunks.
\* Of projects stored under a blank name nothing is claimed.
THEOREM AnswersStay == AdviceSpec => []AnswersStayInScope
  <1>1. AdviceInv => AnswersStayInScope
    <2>1. SUFFICES ASSUME AdviceInv, NEW q \in Readers
                   PROVE  /\ \A x \in Used(q) : InScope(ask[q].scope, x)
                          /\ ask[q].op = "support" => ask[q].context = {}
      BY DEF AnswersStayInScope
    <2>2. ask[q] \in Request /\ InItsScope(ask[q]) /\ Routed(ask[q])
      BY <2>1 DEF AdviceInv, AskOK
    <2>3. ask[q].op = "support" => ask[q].context = {}
      BY <2>2 DEF Routed
    <2>4. ASSUME NEW x \in Used(q) PROVE InScope(ask[q].scope, x)
      <3>1. Belongs(ask[q].scope, x)
        BY <2>2, <2>4 DEF Used, InItsScope
      <3>2. ask[q].got \subseteq Evidence /\ ask[q].cited \subseteq Advisors \X Evidence
        BY <2>2 DEF Request
      <3>3. x \in Evidence
        BY <2>4, <3>2 DEF Used
      <3> QED BY <3>1, <3>3, BelongsMeansInScope
    <2> QED BY <2>3, <2>4
  <1> QED BY <1>1, AdviceInvariant, PTL

\* No advisor that had something to answer from on arrival answers without,
\* whatever is written and whatever the model cites: what its collection still
\* has to read leads to it.  Correlations and sources are of such advisors.
THEOREM AnswersGrounded == AdviceSpec => []AnswersAreGrounded
  <1>1. AdviceInv => AnswersAreGrounded
    <2>1. SUFFICES ASSUME AdviceInv, NEW q \in Readers
                   PROVE  LET a == ask[q]
                          IN  /\ a.ran \cap a.expected \subseteq a.had
                              /\ a.outcome = "collectionEmpty" => a.ran \cap a.expected = {}
                              /\ UNION Correlations(a.cited) \subseteq a.had
                              /\ \A c \in Consolidated(a.cited) :
                                    c.advisors # {} /\ c.advisors \subseteq a.had
      BY DEF AnswersAreGrounded
    <2> DEFINE a == ask[q]
    <2>2. Grounded(a)
      BY <2>1 DEF AdviceInv, AskOK
    <2> HIDE DEF a
    <2>3. UNION Correlations(a.cited) \subseteq a.had
      BY <2>2 DEF Grounded, Correlations
    <2>4. ASSUME NEW c \in Consolidated(a.cited)
          PROVE  c.advisors # {} /\ c.advisors \subseteq a.had
      <3>1. PICK s \in {SourceOf(d[2]) : d \in a.cited} :
               c.advisors = {d[1] : d \in {e \in a.cited : SourceOf(e[2]) = s}}
        BY DEF Consolidated
      <3>2. PICK d \in a.cited : SourceOf(d[2]) = s
        OBVIOUS
      <3>3. d[1] \in c.advisors
        BY <3>1, <3>2
      <3>4. c.advisors \subseteq Sources(a.cited)
        BY <3>1 DEF Sources
      <3> QED BY <2>2, <3>3, <3>4 DEF Grounded
    <2>5. /\ a.ran \cap a.expected \subseteq a.had
          /\ a.outcome = "collectionEmpty" => a.ran \cap a.expected = {}
      BY <2>2 DEF Grounded
    <2> QED BY <2>3, <2>4, <2>5 DEF a
  <1> QED BY <1>1, AdviceInvariant, PTL

\* The two passes of the strategy advisor agree whatever is written between
\* them: the second lists the portfolios of the first, and what was executed
\* is what was gathered before both.
THEOREM StrategyAgrees == AdviceSpec => []StrategyLevelsAgree
  <1>1. AdviceInv => StrategyLevelsAgree
    <2>1. SUFFICES ASSUME AdviceInv, NEW q \in Readers, ask[q].step = "run",
                          Turn(ask[q]) = "strategy_advisor", NEW pf \in ask[q].known
                   PROVE  pf \in ask[q].live <=>
                            \E g \in ask[q].live \cap Programs : programs[g] = pf
      BY DEF StrategyLevelsAgree, Current, Turn
    <2> DEFINE a == ask[q]
    <2>2. a \in Request /\ Units(a) /\ Gathering(a) /\ Fresh(a)
      BY <2>1 DEF AdviceInv, AskOK
    <2>3. a.left = {} /\ a.within = {} /\ Busied(a)
      BY <2>1, <2>2 DEF Fresh, Busied, Gatherers, ByOrganization
    <2>4. a.step = "run" /\ Turn(a) = "strategy_advisor" /\ pf \in a.known
      BY <2>1
    <2> HIDE DEF a
    <2>5. a.level = "portfolio"
      BY <2>2, <2>3, <2>4 DEF Units
    <2>6. /\ \A g \in a.live \cap Programs : Executed(a, g)
          /\ \A g \in Programs : Executed(a, g) /\ programs[g] \in a.known => g \in a.live
          /\ \A u \in a.live \cap Portfolios :
               \E g \in Programs : programs[g] = u /\ Executed(a, g)
          /\ \A g \in Programs :
               Executed(a, g) /\ programs[g] \in a.known => programs[g] \in a.live
      BY <2>2, <2>3, <2>4, <2>5 DEF Units
    <2>7. pf \in Portfolios
      BY <2>2, <2>4 DEF Request
    <2>8. pf \in a.live => \E g \in a.live \cap Programs : programs[g] = pf
      BY <2>4, <2>6, <2>7
    <2>9. (\E g \in a.live \cap Programs : programs[g] = pf) => pf \in a.live
      BY <2>4, <2>6
    <2> QED BY <2>8, <2>9 DEF a
  <1> QED BY <1>1, AdviceInvariant, PTL

-----------------------------------------------------------------------------
(* The analyses are as many as the bound lets begin, and one in flight for *)
(* each of the other writers.                                              *)

Saving == {w \in Writers : work[w].step \in {"lookup", "save"}}

BoundInv == Len(analyses) + Cardinality(Saving) <= MaxAnalyses + Cardinality(Writers)

LEMMA WritersCount ==
    IsFiniteSet(Writers) /\ Cardinality(Writers) \in Nat /\ MaxAnalyses \in Nat /\ MaxAnalyses >= 1
  BY WritersAssumption, MaxAnalysesAssumption, FS_CardinalityType

LEMMA SavingCount ==
  ASSUME NEW S \in SUBSET Writers
  PROVE  /\ IsFiniteSet(S) /\ Cardinality(S) \in Nat /\ Cardinality(S) <= Cardinality(Writers)
         /\ \A T \in SUBSET S : Cardinality(T) \in Nat /\ Cardinality(T) <= Cardinality(S)
         /\ \A w \in S : Cardinality(S \ {w}) = Cardinality(S) - 1
  <1>1. IsFiniteSet(S) /\ Cardinality(S) \in Nat /\ Cardinality(S) <= Cardinality(Writers)
    BY WritersCount, FS_Subset, FS_CardinalityType
  <1>2. \A T \in SUBSET S : Cardinality(T) \in Nat /\ Cardinality(T) <= Cardinality(S)
    BY <1>1, FS_Subset, FS_CardinalityType
  <1>3. \A w \in S : Cardinality(S \ {w}) = Cardinality(S) - 1
    BY <1>1, FS_RemoveElement
  <1> QED BY <1>1, <1>2, <1>3

\* No analysis is saved, and no writer is more about to.
LEMMA BoundKept ==
  ASSUME RowsInv, BoundInv, analyses' = analyses, Saving' \subseteq Saving
  PROVE  BoundInv'
  <1>1. Saving \in SUBSET Writers /\ Saving' \in SUBSET Saving
    BY DEF Saving
  <1>2. Cardinality(Saving) \in Nat /\ Cardinality(Saving') \in Nat
        /\ Cardinality(Saving') <= Cardinality(Saving)
    BY <1>1, SavingCount
  <1>3. Len(analyses) \in Nat
    BY RowTypes
  <1> QED BY <1>2, <1>3, WritersCount DEF BoundInv

\* One writer's state changes, and it is not about to save unless it was.
LEMMA SavingShrinks ==
  ASSUME WorkspaceInv, NEW w \in Writers, NEW n \in WorkState, work' = [work EXCEPT ![w] = n],
         n.step \in {"lookup", "save"} => work[w].step \in {"lookup", "save"}
  PROVE  Saving' \subseteq Saving
  BY WorkBecomes DEF Saving, WorkspaceInv

LEMMA FinishShrinks ==
  ASSUME WorkspaceInv, NEW w \in Writers, Finish(w)
  PROVE  Saving' = Saving \ {w}
  <1>1. /\ work'[w] = Resting /\ Resting.step = "idle"
        /\ \A v \in Writers : v # w => work'[v] = work[v]
    BY RestingState, WorkBecomes DEF Finish, WorkspaceInv
  <1> QED BY <1>1 DEF Saving

LEMMA BoundWhenBegins ==
  ASSUME WorkspaceInv, BoundInv, NEW w \in Writers, BeginSomeWork(w)
  PROVE  BoundInv'
  <1>0. RowsInv
    BY DEF WorkspaceInv
  <1>1. analyses' = analyses
    BY DEF BeginSomeWork, BeginAnalysis, BeginPortfolio, BeginProgram, BeginProject, BeginWork,
           rowVars
  <1>2. CASE Len(analyses) < MaxAnalyses
    <2>1. Saving' \in SUBSET Writers
      BY DEF Saving
    <2>2. Cardinality(Saving') \in Nat /\ Cardinality(Saving') <= Cardinality(Writers)
      BY <2>1, SavingCount
    <2>3. Len(analyses) \in Nat
      BY <1>0, RowTypes
    <2> QED BY <1>1, <1>2, <2>2, <2>3, WritersCount DEF BoundInv
  <1>3. ASSUME NEW n, work' = [work EXCEPT ![w] = n], n \in WorkState,
               n.step \notin {"lookup", "save"}
        PROVE  BoundInv'
    BY <1>0, <1>1, <1>3, SavingShrinks, BoundKept
  <1>4. ASSUME NEW row \in Portfolios, BeginPortfolio(w, row) PROVE BoundInv'
    <2> DEFINE n == [Task("portfolio", "insert") EXCEPT !.row = row]
    <2>1. n \in WorkState /\ n.step = "insert"
      BY RestingState DEF Task, Resting, WorkState, WorkSteps
    <2>2. work' = [work EXCEPT ![w] = n]
      BY <1>4 DEF BeginPortfolio, BeginWork
    <2> HIDE DEF n
    <2> QED BY <1>3, <2>1, <2>2
  <1>5. ASSUME NEW row \in Programs, NEW parent \in Portfolios \cup {Foreign},
               BeginProgram(w, row, parent)
        PROVE  BoundInv'
    <2> DEFINE n == [Task("program", "parent") EXCEPT !.row = row, !.parent = parent]
    <2>1. n \in WorkState /\ n.step = "parent"
      BY RestingState DEF Task, Resting, WorkState, WorkSteps
    <2>2. work' = [work EXCEPT ![w] = n]
      BY <1>5 DEF BeginProgram, BeginWork
    <2> HIDE DEF n
    <2> QED BY <1>3, <2>1, <2>2
  <1>6. ASSUME NEW name \in StoredNames, NEW parent \in Programs \cup {Foreign},
               BeginProject(w, name, parent)
        PROVE  BoundInv'
    <2> DEFINE n == [Task("project", "parent") EXCEPT !.name = name, !.parent = parent]
    <2>1. n \in WorkState /\ n.step = "parent"
      BY RestingState, NamesAssumption DEF Task, Resting, WorkState, WorkSteps
    <2>2. work' = [work EXCEPT ![w] = n]
      BY <1>6 DEF BeginProject, BeginWork
    <2> HIDE DEF n
    <2> QED BY <1>3, <2>1, <2>2
  <1> QED BY <1>2, <1>4, <1>5, <1>6 DEF BeginSomeWork

LEMMA BoundWhenContinues ==
  ASSUME WorkspaceInv, BoundInv, NEW w \in Writers, ContinueWork(w)
  PROVE  BoundInv'
  <1>0. RowsInv /\ work[w] \in WorkState
    BY DEF WorkspaceInv
  <1>1. CASE SaveAnalysis(w)
    <2>1. w \in Saving /\ Saving \in SUBSET Writers
      BY <1>1 DEF SaveAnalysis, WorkAt, Saving
    <2>2. Saving' = Saving \ {w}
      BY <1>1, FinishShrinks DEF SaveAnalysis
    <2>3. Cardinality(Saving) \in Nat /\ Cardinality(Saving') = Cardinality(Saving) - 1
      BY <2>1, <2>2, SavingCount
    <2>4. \E row : analyses' = Append(analyses, row)
      BY <1>1 DEF SaveAnalysis
    <2>5. Len(analyses) \in Nat /\ Len(analyses') = Len(analyses) + 1
      BY <1>0, <2>4, RowTypes DEF RowsInv
    <2> QED BY <2>3, <2>5, WritersCount DEF BoundInv
  <1>2. CASE LookupProject(w)
    <2> DEFINE n == [work[w] EXCEPT !.step = "save",
                                    !.found = (projects[ProjectFor(work[w].name)] # NoRow)]
    <2>1. work' = [work EXCEPT ![w] = n] /\ analyses' = analyses /\ work[w].step = "lookup"
      BY <1>2 DEF LookupProject, WorkspaceInv, rowVars, WorkAt
    <2>2. n \in WorkState
      BY <1>0 DEF WorkState, WorkSteps
    <2> HIDE DEF n
    <2> QED BY <1>0, <2>1, <2>2, SavingShrinks, BoundKept
  <1>3. ASSUME Finish(w), analyses' = analyses PROVE BoundInv'
    BY <1>0, <1>3, FinishShrinks, BoundKept
  <1>4. CASE LoseAnalysis(w) \/ RejectInsert(w) \/ FailWork(w)
    BY <1>3, <1>4 DEF LoseAnalysis, RejectInsert, FailWork, rowVars
  <1>5. CASE InsertPortfolio(w) \/ InsertProgram(w) \/ InsertProject(w)
    BY <1>3, <1>5 DEF InsertPortfolio, InsertProgram, InsertProject
  <1>6. CASE CheckParent(w)
    <2> DEFINE n == [work[w] EXCEPT !.step = "insert"]
    <2>1. analyses' = analyses /\ (WorkGoto(w, "insert") \/ Finish(w))
      BY <1>6 DEF CheckParent, rowVars
    <2>2. CASE WorkGoto(w, "insert")
      <3>1. work' = [work EXCEPT ![w] = n]
        BY <2>2 DEF WorkGoto, WorkspaceInv
      <3>2. n \in WorkState /\ n.step = "insert"
        BY <1>0 DEF WorkState, WorkSteps
      <3> HIDE DEF n
      <3> QED BY <1>0, <2>1, <3>1, <3>2, SavingShrinks, BoundKept
    <2> QED BY <1>3, <2>1, <2>2
  <1> QED BY <1>1, <1>2, <1>4, <1>5, <1>6 DEF ContinueWork

BoundedAdviceInv == AdviceInv /\ BoundInv

LEMMA BoundedInitInv == AdviceInit => BoundedAdviceInv
  <1>1. SUFFICES ASSUME AdviceInit PROVE BoundInv
    BY AdviceInitInv DEF BoundedAdviceInv
  <1>2. Saving = {}
    BY <1>1, RestingState DEF AdviceInit, WorkspaceInit, Saving
  <1>3. Len(analyses) = 1
    BY <1>1 DEF AdviceInit, WorkspaceInit
  <1> QED BY <1>2, <1>3, WritersCount, FS_EmptySet DEF BoundInv

LEMMA BoundedStepInv == BoundedAdviceInv /\ [AdviceNext]_adviceVars => BoundedAdviceInv'
  <1>1. SUFFICES ASSUME BoundedAdviceInv, [AdviceNext]_adviceVars PROVE BoundInv'
    BY AdviceStepInv DEF BoundedAdviceInv
  <1>2. AdviceInv /\ BoundInv /\ WorkspaceInv /\ RowsInv
        /\ \A q \in Readers : ask[q] \in Request /\ AskOK(ask[q])
    BY <1>1 DEF BoundedAdviceInv, AdviceInv, WorkspaceInv
  <1>3. ASSUME UNCHANGED <<analyses, work>> PROVE BoundInv'
    <2>1. Saving' = Saving
      BY <1>3 DEF Saving
    <2> QED BY <1>2, <1>3, <2>1, BoundKept
  <1>4. ASSUME NEW q \in Readers, BeginSomeAsk(q) \/ ContinueAsk(q) PROVE BoundInv'
    <2>1. \E n : Become(q, n)
      BY <1>2, <1>4, SelectionStarts, AskContinues
    <2> QED BY <1>3, <2>1 DEF Become, workspaceVars, rowVars
  <1>5. ASSUME NEW w \in Writers, BeginSomeWork(w) \/ ContinueWork(w) PROVE BoundInv'
    BY <1>2, <1>5, BoundWhenBegins, BoundWhenContinues
  <1>6. ASSUME NEW name, NEW program, AttachProject(name, program) PROVE BoundInv'
    BY <1>3, <1>6 DEF AttachProject
  <1>7. CASE UNCHANGED adviceVars
    BY <1>3, <1>7 DEF adviceVars, workspaceVars, rowVars
  <1> QED BY <1>1, <1>4, <1>5, <1>6, <1>7 DEF AdviceNext

LEMMA BoundedMeansTyped == BoundedAdviceInv => AdviceTypeOK
  <1>1. SUFFICES ASSUME BoundedAdviceInv PROVE AdviceTypeOK
    OBVIOUS
  <1>2. AdviceInv /\ BoundInv /\ WorkspaceInv /\ RowsInv
    BY <1>1 DEF BoundedAdviceInv, AdviceInv, WorkspaceInv
  <1>3. WorkspaceTypeOK
    <2>1. ASSUME NEW n \in Names
          PROVE  projects[n] \in {NoRow, Unlinked} \/ programs[projects[n]] \in portfolios
      <3>1. CASE projects[n] \in Programs
        <4>1. n \in Linked
          BY <3>1 DEF Linked
        <4> QED BY <1>2, <4>1, RowTypes DEF PortfolioOf
      <3> QED BY <1>2, <3>1 DEF RowsInv
    <2>2. \A i \in DOMAIN analyses :
             analyses[i].org = "own" => projects[analyses[i].project] # NoRow
      BY <1>2 DEF RowsInv, Filed
    <2> QED BY <1>2, <2>1, <2>2 DEF WorkspaceTypeOK, WorkspaceInv, RowsInv
  <1>4. \A i \in DOMAIN analyses : i \in 1 .. MaxAnalyses + Cardinality(Writers)
    <2>1. Saving \in SUBSET Writers
      BY DEF Saving
    <2>2. Cardinality(Saving) \in Nat
      BY <2>1, SavingCount
    <2>3. Len(analyses) \in Nat /\ DOMAIN analyses = 1 .. Len(analyses)
      BY <1>2 DEF RowsInv
    <2> QED BY <1>2, <2>2, <2>3, WritersCount DEF BoundInv
  <1>5. ASSUME NEW q \in Readers PROVE ask[q] \in AskState
    <2> DEFINE a == ask[q]
    <2>1. a \in Request /\ InItsScope(a)
      BY <1>2 DEF AdviceInv, AskOK
    <2> HIDE DEF a
    <2>2. ASSUME NEW x \in Evidence, Belongs(a.scope, x) PROVE x \in Items
      <3>1. CASE x \in {"analysis"} \X Nat \X Names
        <4>1. x[2] \in 1 .. MaxAnalyses + Cardinality(Writers)
          BY <1>4, <2>2, <3>1 DEF Belongs
        <4> QED BY <3>1, <4>1 DEF Items
      <3> QED BY <3>1 DEF Evidence, Items
    <2>3. a.got \subseteq Items
      BY <2>1, <2>2 DEF Request, InItsScope
    <2>4. a.cited \subseteq Advisors \X Items
      <3>1. ASSUME NEW c \in a.cited PROVE c \in Advisors \X Items
        <4>1. c \in Advisors \X Evidence /\ Belongs(a.scope, c[2])
          BY <2>1 DEF Request, InItsScope
        <4> QED BY <2>2, <4>1
      <3> QED BY <3>1
    <2>5. a \in AskState
      BY <2>1, <2>3, <2>4 DEF Request, AskState
    <2> QED BY <2>5 DEF a
  <1>6. ask \in [Readers -> AskState]
    BY <1>2, <1>5 DEF AdviceInv
  <1> QED BY <1>3, <1>6 DEF AdviceTypeOK

\* At any moment between the queries of any requests, a project is unlinked or
\* in a program of a portfolio that is there, an analysis of the organization
\* is under a project that has a row, and each request's state is in its type:
\* what it was given, cited or showed names an analysis that was let begin.
THEOREM AdviceTypes == AdviceSpec => []AdviceTypeOK
  BY BoundedInitInv, BoundedStepInv, BoundedMeansTyped, PTL DEF AdviceSpec
=============================================================================

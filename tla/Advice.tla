------------------------------- MODULE Advice --------------------------------
(***************************************************************************)
(* The requests that read the workspace: the analysis views, the eight     *)
(* advisors, and decision support and executive narrative, which run       *)
(* several advisors over one declared scope.  An advisor's evidence is     *)
(* collected by a chain of queries, each a transaction of its own, while   *)
(* other requests write (module Workspace).  The language model chooses    *)
(* what to cite.                                                           *)
(*                                                                         *)
(* An item of evidence is <<type, id, attribution>>: an analysis and the   *)
(* project it is presented under, an objective that a portfolio, a program *)
(* or a project declares, or a chunk of a document.                        *)
(***************************************************************************)
EXTENDS Workspace, AdvisorCatalog

CONSTANTS
    Readers,    \* requests that read
    Declaring,  \* portfolios and programs that declare an objective
    DeclaringProjects, \* names whose projects, once they have a program, declare one
    Chunks,     \* chunks that a search of the organization's documents can return
    Questions,  \* for each question asked, the advisors whose vocabulary it matches
    MaxActive   \* bound: requests served at one time

ASSUME ReadersAssumption == IsFiniteSet(Readers)

VARIABLE ask   \* what each reading request is doing

adviceVars == <<workspaceVars, ask>>

NoName == <<"", TRUE>>   \* None and blank are the same to resolve_scope_id

Views == {"analyses", "actionItems", "latestRisks", "summary", "portfolioSummary", "detail"}

Items ==
    ({"analysis"} \X (1..MaxAnalyses + Cardinality(Writers)) \X Names)
    \cup ({"objective"} \X (Portfolios \cup Programs) \X {NoName})
    \cup ({"projectObjective"} \X Names \X {NoName})
    \cup ({"chunk"} \X Chunks \X {NoName})

Elsewhere == <<"", FALSE>>   \* stands for another organization's project

Scopes ==
    [type: {"name"}, id: Names]   \* free text
    \cup [type: {"project"}, id: Names \cup {Elsewhere}]
    \cup [type: {"portfolio"}, id: Portfolios \cup {Foreign}]
    \cup [type: {"organization"}, id: {NoName}]

Organization == [type |-> "organization", id |-> NoName]

AskSteps == {"idle", "resolve", "read", "scope", "provision", "collect", "run", "conclude", "answered"}

AskState ==
    [step: AskSteps,
     op: {"none", "advisor", "support"} \cup Views,
     scope: Scopes,
     name: Names \cup {Elsewhere},  \* the name advisors filter by, or one given beside an id
     queue: Seq(Advisors),          \* advisors still to run, the current one first
     todo: SUBSET (Names \X Kinds), \* gather_context calls still to make
     listed: SUBSET Names,          \* projects list_projects returned
     level: {"project", "program", "portfolio"},  \* where strategy's assembly is
     known: SUBSET Portfolios,      \* portfolios list_portfolios returned
     left: SUBSET Portfolios,       \* those whose programs are still to be listed
     within: SUBSET Programs,       \* programs whose projects are still to be listed
     live: SUBSET (Portfolios \cup Programs),  \* units with execution evidence
     got: SUBSET Items,             \* the current advisor's evidence, or a view's rows
     context: SUBSET Chunks,        \* chunks in its prompt beside the evidence
     had: SUBSET Advisors, ran: SUBSET Advisors,
     cited: SUBSET (Advisors \X Items),
     expected: SUBSET Advisors,     \* history: advisors that had evidence on arrival
     outcome: {"none", "complete", "selectionEmpty", "collectionEmpty", "notFound", "conflict",
               "badGateway", "serverError"}]

Quiet ==
    [step |-> "idle", op |-> "none", scope |-> Organization, name |-> NoName, queue |-> <<>>,
     todo |-> {}, listed |-> {}, level |-> "project", known |-> {}, left |-> {}, within |-> {},
     live |-> {}, got |-> {}, context |-> {}, had |-> {}, ran |-> {}, cited |-> {},
     expected |-> {}, outcome |-> "none"]

AdviceTypeOK ==
    /\ WorkspaceTypeOK
    /\ ask \in [Readers -> AskState]

AdviceInit ==
    /\ WorkspaceInit
    /\ ask = [q \in Readers |-> Quiet]

Busy ==
    Cardinality({w \in Writers : ~ WorkAt(w, "idle")})
      + Cardinality({q \in Readers : ask[q].step # "idle"})

AskAt(q, step) == ask[q].step = step

Current(q) == Head(ask[q].queue)

Become(q, state) ==
    /\ ask' = [ask EXCEPT ![q] = state]
    /\ UNCHANGED workspaceVars

\* The response: what was collected on the way is dropped.
Answer(q, outcome, shown) ==
    Become(q, [ask[q] EXCEPT !.step = "answered", !.outcome = outcome, !.got = shown,
                             !.context = {}, !.queue = <<>>, !.name = NoName])

-----------------------------------------------------------------------------
(* Reading analyses. *)

\* resolve_scope_id: the projects a name stands for; none given is all.
ProjectsNamed(name) ==
    IF Blank(name) THEN Names ELSE {Strip(name)} \cap {n \in Names : projects[n] # NoRow}

\* list_analyses within the organization.
Rows(inProjects) ==
    {i \in DOMAIN analyses : analyses[i].org = "own" /\ analyses[i].project \in inProjects}

\* AIContextEngine.gather: the name is resolved first; a project, once there,
\* stays, so the two transactions read as much as one at the later of them.
Gathered(name, kind) ==
    {i \in Rows(ProjectsNamed(name)) : analyses[i].kind = kind /\ analyses[i].structured}

\* The first of a list that is ordered newest first.
Newest(rows) == {i \in rows : \A j \in rows : j <= i}

As(rows, name) == {<<"analysis", i, name>> : i \in rows}

\* The kind of analysis each advisor reads of a project.
KindsOf(advisor) ==
    CASE advisor = "risk_advisor" -> {"risk"}
      [] advisor \in {"delivery_advisor", "portfolio_advisor", "pmo_advisor"} -> {"status"}
      [] advisor \in {"executive_advisor", "strategy_advisor"} -> {"risk", "status"}
      [] advisor \in ByDocuments -> {}

\* History: what users had analysed under a name, by the name they typed.
Recorded(name, kind) ==
    {i \in DOMAIN analyses :
        /\ analyses[i].org = "own" /\ analyses[i].kind = kind /\ analyses[i].structured
        /\ Blank(name) \/ ProjectFor(analyses[i].typed) = ProjectFor(name)}

\* History: there is something for the advisor to answer from.  A project
\* without a program takes no part, although the strategy assembler's docstring
\* says that it does: list_projects leaves it out (README, section 4).
HasEvidence(advisor, scope, name) ==
    LET targets == CASE advisor \in ByProject -> {name}
                     [] advisor = "portfolio_advisor" ->
                          {n \in Linked : PortfolioOf(n) = scope.id}
                     [] OTHER -> Linked
    IN  \/ \E n \in targets, kind \in KindsOf(advisor) : Recorded(n, kind) # {}
        \/ advisor = "strategy_advisor" /\ Linked \cap DeclaringProjects # {}
        \/ advisor = "strategy_advisor" /\ \E u \in Declaring : u \in portfolios
        \/ advisor = "strategy_advisor" /\ \E u \in Declaring \cap Programs : programs[u] # NoRow

-----------------------------------------------------------------------------
(* The questions.  Every route answers one advisor, or has the orchestrator *)
(* run those its rules select.                                              *)

Ask(q, op, step, scope, name, queue) ==
    /\ AskAt(q, "idle")
    /\ Become(q, [Quiet EXCEPT !.op = op, !.step = step, !.scope = scope, !.name = name,
                               !.queue = queue,
                               !.expected = {a \in Advisors :
                                   /\ \E i \in DOMAIN queue : queue[i] = a
                                   /\ HasEvidence(a, scope, name)}])

AskOne(q, advisor, scope, name) ==
    Ask(q, "advisor", "provision", scope, name, <<advisor>>)

AskRiskAdvisor(q, name) == AskOne(q, "risk_advisor", [type |-> "name", id |-> name], name)

AskDeliveryAdvisor(q, name) == AskOne(q, "delivery_advisor", [type |-> "name", id |-> name], name)

AskPortfolioAdvisor(q, portfolio) ==
    AskOne(q, "portfolio_advisor", [type |-> "portfolio", id |-> portfolio], NoName)

AskPMOAdvisor(q) == AskOne(q, "pmo_advisor", Organization, NoName)

AskExecutiveAdvisor(q) == AskOne(q, "executive_advisor", Organization, NoName)

AskStrategyAdvisor(q) == AskOne(q, "strategy_advisor", Organization, NoName)

AskDocumentAdvisor(q) == AskOne(q, "document_advisor", Organization, NoName)

AskGovernanceAdvisor(q) == AskOne(q, "governance_advisor", Organization, NoName)

\* ExplicitScope: what a caller can declare, whether it is there or not.
DeclaredScopes ==
    [type: {"project"}, id: StoredNames \cup {Elsewhere}]
    \cup [type: {"portfolio"}, id: Portfolios \cup {Foreign}]
    \cup {Organization}

Orchestrate(q, matching, scope) ==
    Ask(q, "support", "scope", scope, IF scope.type = "project" THEN scope.id ELSE NoName,
        Selected(matching, scope.type))

\* POST /decision-support/ask: the words of the question select.
AskDecisionSupport(q, scope) == \E matching \in Questions : Orchestrate(q, matching, scope)

\* POST /executive-narrative/generate names the whole catalog.
GenerateNarrative(q, scope) == Orchestrate(q, Advisors, scope)

\* resolve_decision_support_scope, then the selection of the orchestrator.
ResolveDeclaredScope(q) ==
    LET a == ask[q]
        mine == CASE a.scope.type = "project" -> a.scope.id \in Linked
                  [] a.scope.type = "portfolio" -> a.scope.id \in portfolios
                  [] a.scope.type = "organization" -> TRUE
    IN  /\ AskAt(q, "scope")
        /\ IF ~ mine THEN Answer(q, "notFound", {})
           ELSE IF a.queue = <<>> THEN Answer(q, "selectionEmpty", {})
           ELSE Become(q, [a EXCEPT !.step = "provision"])

-----------------------------------------------------------------------------
(* The evidence of the advisor whose turn it is. *)

\* The direct route of the risk advisor then searches the documents of the
\* whole organization.  What it finds goes into the prompt beside the evidence
\* but is none: it can neither be cited nor have the model called.  The delivery
\* advisor's route and the orchestrator do not search for these two.
ProvisionByProject(q) ==
    LET a == ask[q]
        kinds == KindsOf(Current(q))
    IN  /\ AskAt(q, "provision") /\ Current(q) \in ByProject
        /\ \E chunks \in SUBSET Chunks :
             /\ chunks # {} => a.op = "advisor" /\ Current(q) = "risk_advisor"
             /\ Become(q, [a EXCEPT !.step = "run", !.context = chunks,
                  !.got = UNION {As(Gathered(a.name, kind), NoName) : kind \in kinds}])

\* gather_rag_context: whatever the search returns.
ProvisionByDocuments(q) ==
    /\ AskAt(q, "provision") /\ Current(q) \in ByDocuments
    /\ \E chunks \in SUBSET Chunks :
         Become(q, [ask[q] EXCEPT !.step = "run",
                                  !.got = {<<"chunk", c, NoName>> : c \in chunks}])

\* PortfolioEvidenceAssembler: the portfolio, then its programs.
ProvisionByPortfolio(q) ==
    LET a == ask[q]
    IN  /\ AskAt(q, "provision") /\ Current(q) = "portfolio_advisor"
        /\ IF a.scope.id \notin portfolios THEN Answer(q, "notFound", {})
           ELSE Become(q, [a EXCEPT !.step = "collect", !.level = "portfolio",
                                    !.within = ProgramsOf(a.scope.id)])

\* The assemblers of a whole organization start from its linked projects.
ProvisionByOrganization(q) ==
    /\ AskAt(q, "provision") /\ Current(q) \in ByOrganization
    /\ Become(q, [ask[q] EXCEPT !.step = "collect", !.level = "project", !.listed = Linked,
                                !.todo = Linked \X KindsOf(Current(q))])

\* gather_context for one project and kind.  All but the PMO advisor keep the
\* newest analysis of each; the evidence is presented under that project.
GatherProject(q) ==
    LET a == ask[q]
    IN  /\ AskAt(q, "collect")
        /\ \E call \in a.todo :
             LET rows == Gathered(call[1], call[2])
                 kept == IF Current(q) = "pmo_advisor" THEN rows ELSE Newest(rows)
             IN  Become(q, [a EXCEPT !.todo = @ \ {call}, !.got = @ \cup As(kept, call[1])])

\* The projects of one program, for the portfolio advisor to gather.
ListProjects(q) ==
    LET a == ask[q]
    IN  /\ AskAt(q, "collect") /\ a.todo = {} /\ Current(q) = "portfolio_advisor"
        /\ \E g \in a.within :
             Become(q, [a EXCEPT !.within = @ \ {g}, !.todo = Members(g) \X {"status"}])

\* StrategyEvidenceAssembler, once the execution of all projects is known: the
\* project units, with the objectives that the listed projects declare; then
\* the portfolios, whose programs and projects are listed twice, first for
\* the program units and then again for the portfolio units.
ListPortfolios(q) ==
    LET a == ask[q]
        own == {<<"projectObjective", n, NoName>> : n \in a.listed \cap DeclaringProjects}
    IN  /\ AskAt(q, "collect") /\ a.todo = {}
        /\ Current(q) = "strategy_advisor" /\ a.level = "project"
        /\ Become(q, [a EXCEPT !.level = "program", !.known = portfolios, !.left = portfolios,
                               !.got = @ \cup own])

\* The objective of a portfolio or a program, when it declares one.
Objective(unit) == IF unit \in Declaring THEN {<<"objective", unit, NoName>>} ELSE {}

ListUnitPrograms(q) ==
    LET a == ask[q]
    IN  /\ AskAt(q, "collect") /\ a.within = {} /\ a.level # "project"
        /\ \E pf \in a.left :
             Become(q, [a EXCEPT !.left = @ \ {pf}, !.within = ProgramsOf(pf),
                  !.got = IF a.level = "portfolio" THEN @ \cup Objective(pf) ELSE @])

GatherMembersAgain(q) ==   \* variant of ListUnitProjects: a new gather_context() for each unit
    LET a == ask[q]
        executed == {n \in Names : \E kind \in {"risk", "status"} : Gathered(n, kind) # {}}
    IN  /\ AskAt(q, "collect") /\ Current(q) = "strategy_advisor"
        /\ \E g \in a.within :
             LET unit == IF a.level = "program" THEN g ELSE programs[g]
             IN  Become(q, [a EXCEPT !.within = @ \ {g},
                      !.live = IF Members(g) \cap executed = {} THEN @ ELSE @ \cup {unit},
                      !.got = IF a.level = "program" THEN @ \cup Objective(g) ELSE @])

\* A unit is executed when one of its projects was when they were gathered.  A
\* project created since then has no entry in execution_by_project: KeyError.
ListUnitProjects(q) ==
    LET a == ask[q]
        executed == {x[3] : x \in {y \in a.got : y[1] = "analysis"}}
    IN  /\ AskAt(q, "collect") /\ Current(q) = "strategy_advisor"
        /\ \E g \in a.within :
             LET unit == IF a.level = "program" THEN g ELSE programs[g]
             IN  IF ~ (Members(g) \subseteq a.listed) THEN Answer(q, "serverError", {})
                 ELSE Become(q, [a EXCEPT !.within = @ \ {g},
                      !.live = IF Members(g) \cap executed = {} THEN @ ELSE @ \cup {unit},
                      !.got = IF a.level = "program" THEN @ \cup Objective(g) ELSE @])

\* The second pass over the same list of portfolios.
ListAgain(q) ==
    LET a == ask[q]
    IN  /\ AskAt(q, "collect") /\ a.level = "program" /\ a.left = {} /\ a.within = {}
        /\ Become(q, [a EXCEPT !.level = "portfolio", !.left = a.known])

Collected(q) ==
    LET a == ask[q]
    IN  /\ AskAt(q, "collect") /\ a.todo = {} /\ a.left = {} /\ a.within = {}
        /\ Current(q) \in {"strategy_advisor", "portfolio_advisor"} => a.level = "portfolio"
        /\ Become(q, [a EXCEPT !.step = "run"])

-----------------------------------------------------------------------------
(* AdvisorFramework.run and the answer. *)

\* RecommendationEngine.build keeps the cited items that were in the evidence,
\* one for each source.  Bound: the model cites nothing, or all it can.
Citable(got) ==
    {{}} \cup {c \in SUBSET got :
        \A x \in got : Cardinality({y \in c : SourceOf(y) = SourceOf(x)}) = 1}

\* The next advisor of the queue; a route of one advisor answers.
AfterAdvisor(q, withEvidence, cites) ==
    LET a == ask[q]
        advisor == Current(q)
    IN  Become(q, [a EXCEPT !.queue = Tail(@), !.got = {}, !.context = {}, !.listed = {},
             !.known = {}, !.live = {}, !.level = "project", !.ran = @ \cup {advisor},
             !.had = IF withEvidence THEN @ \cup {advisor} ELSE @,
             !.cited = @ \cup ({advisor} \X cites),
             !.step = CASE a.op = "advisor" -> "answered"
                        [] a.op # "advisor" /\ Len(a.queue) > 1 -> "provision"
                        [] OTHER -> "conclude",
             !.outcome = IF a.op = "advisor" THEN "complete" ELSE @])

\* Without evidence the answer is a fixed one, and the model is not asked.
AnswerWithoutEvidence(q) ==
    /\ AskAt(q, "run") /\ ask[q].got = {}
    /\ AfterAdvisor(q, FALSE, {})

CallAdvisor(q) ==
    /\ AskAt(q, "run") /\ ask[q].got # {}
    /\ \E cites \in Citable(ask[q].got) : AfterAdvisor(q, TRUE, cites)

\* Anything but the JSON object asked for is AdvisorExecutionError: 502, and
\* the answers of the advisors before it are lost.
InvalidAdvice(q) ==
    /\ AskAt(q, "run") /\ ask[q].got # {}
    /\ Answer(q, "badGateway", {})

EvidenceIsWhatIsCited(q) ==   \* variant of Conclude: had_evidence from the citations
    /\ AskAt(q, "conclude")
    /\ Answer(q, IF ask[q].cited = {} THEN "collectionEmpty" ELSE "complete", {})

\* Whether any advisor had evidence, not whether it cited it, decides.
Conclude(q) ==
    /\ AskAt(q, "conclude")
    /\ Answer(q, IF ask[q].had = {} THEN "collectionEmpty" ELSE "complete", {})

-----------------------------------------------------------------------------
(* The views. *)

OpenView(q, view, scope, name) == Ask(q, view, "resolve", scope, name, <<>>)

\* GET /analyses, /action-items, /risks/latest and /projects/summary take a
\* project's id, its name, both or neither; only the last insists on one.
OpenProjectView(q) ==
    \E view \in Views \ {"portfolioSummary", "detail"} :
        \/ \E id \in StoredNames \cup {Elsewhere}, name \in TypedNames \cup {NoName} :
             OpenView(q, view, [type |-> "project", id |-> id], name)
        \/ \E name \in TypedNames \cup {NoName} :
             /\ view = "summary" => ~ Blank(name)
             /\ OpenView(q, view, [type |-> "name", id |-> name], name)

OpenPortfolioSummary(q) == Ask(q, "portfolioSummary", "read", Organization, NoName, <<>>)

OpenAnalysis(q) == Ask(q, "detail", "read", Organization, NoName, <<>>)

\* resolve_project_scope.  The id decides; a name beside it must be of a project
\* and agree.  A name alone that no project has is kept, for the view to read
\* as nothing.
ResolveProjectScope(q) ==
    LET a == ask[q]
        byId == a.scope.type = "project"
        idMissing == a.scope.id = Elsewhere \/ projects[a.scope.id] = NoRow
        nameMissing == ~ Blank(a.name) /\ projects[Strip(a.name)] = NoRow
    IN  /\ AskAt(q, "resolve")
        /\ IF byId /\ (idMissing \/ nameMissing)
           THEN Answer(q, "notFound", {})
           ELSE IF byId /\ ~ Blank(a.name) /\ Strip(a.name) # a.scope.id
           THEN Answer(q, "conflict", {})
           ELSE IF byId \/ Blank(a.name) \/ projects[Strip(a.name)] = NoRow
           THEN Become(q, [a EXCEPT !.step = "read"])
           ELSE Become(q, [a EXCEPT !.step = "read",
                                    !.scope = [type |-> "project", id |-> Strip(a.name)]])

Structured(rows, kind) == {i \in rows : analyses[i].kind = kind /\ analyses[i].structured}

\* The rows a view shows, each under the project it belongs to.
Shown(view, rows) ==
    CASE view \in {"analyses", "summary"} -> rows
      [] view = "actionItems" -> Structured(rows, "meeting")
      [] view = "latestRisks" ->
           UNION {Newest(Structured(rows, "risk") \cap Rows({n})) : n \in Names}
      [] view = "portfolioSummary" -> rows \ Rows({Fallback})

ReadView(q) ==
    LET a == ask[q]
        inProjects == CASE a.scope.type = "project" -> {a.scope.id}
                        [] a.scope.type = "name" ->
                             IF a.op = "analyses" /\ ~ Blank(a.name) THEN {}
                             ELSE ProjectsNamed(a.name)
                        [] OTHER -> Names
    IN  /\ AskAt(q, "read") /\ a.op # "detail"
        /\ Answer(q, "complete",
             {<<"analysis", i, analyses[i].project>> : i \in Shown(a.op, Rows(inProjects))})

\* GET /analyses/{id}: another organization's is not found.
ReadAnalysis(q) ==
    /\ AskAt(q, "read") /\ ask[q].op = "detail"
    /\ \E i \in DOMAIN analyses :
         IF i \in Rows(Names)
         THEN Answer(q, "complete", {<<"analysis", i, analyses[i].project>>})
         ELSE Answer(q, "notFound", {})

-----------------------------------------------------------------------------

Reply(q) == AskAt(q, "answered") /\ Become(q, Quiet)

\* A query, the search or the model raises.
FailAsk(q) ==
    /\ ask[q].step \notin {"idle", "answered"}
    /\ Become(q, Quiet)

BeginSomeAsk(q) ==
    \/ \E name \in TypedNames : AskRiskAdvisor(q, name) \/ AskDeliveryAdvisor(q, name)
    \/ \E pf \in Portfolios \cup {Foreign} : AskPortfolioAdvisor(q, pf)
    \/ AskPMOAdvisor(q) \/ AskExecutiveAdvisor(q) \/ AskStrategyAdvisor(q)
    \/ AskDocumentAdvisor(q) \/ AskGovernanceAdvisor(q)
    \/ \E scope \in DeclaredScopes : AskDecisionSupport(q, scope) \/ GenerateNarrative(q, scope)
    \/ OpenProjectView(q) \/ OpenPortfolioSummary(q) \/ OpenAnalysis(q)

ContinueAsk(q) ==
    \/ ResolveDeclaredScope(q)
    \/ ProvisionByProject(q) \/ ProvisionByDocuments(q) \/ ProvisionByPortfolio(q)
    \/ ProvisionByOrganization(q)
    \/ GatherProject(q) \/ ListProjects(q)
    \/ ListPortfolios(q) \/ ListUnitPrograms(q) \/ ListUnitProjects(q) \/ ListAgain(q)
    \/ Collected(q)
    \/ AnswerWithoutEvidence(q) \/ CallAdvisor(q) \/ InvalidAdvice(q) \/ Conclude(q)
    \/ ResolveProjectScope(q) \/ ReadView(q) \/ ReadAnalysis(q)
    \/ Reply(q) \/ FailAsk(q)

AdviceNext ==
    \/ Busy < MaxActive /\ \E q \in Readers : BeginSomeAsk(q)
    \/ \E q \in Readers : ContinueAsk(q)
    \/ /\ Busy < MaxActive
       /\ \E w \in Writers : BeginSomeWork(w)
       /\ UNCHANGED ask
    \/ \E w \in Writers : ContinueWork(w) /\ UNCHANGED ask
    \/ /\ Busy = 0
       /\ \E name \in Names, program \in Programs : AttachProject(name, program)
       /\ UNCHANGED ask

AdviceSpec == AdviceInit /\ [][AdviceNext]_adviceVars

-----------------------------------------------------------------------------
(* Properties. *)

\* What a request was given, or showed, or had cited.
Used(q) == ask[q].got \cup {c[2] : c \in ask[q].cited}

InScope(scope, x) ==
    CASE x[1] \in {"objective", "projectObjective", "chunk"} -> scope.type = "organization"
      [] x[1] = "analysis" ->
           LET row == analyses[x[2]]
               typed == ProjectFor(row.typed)
           IN  /\ row.org = "own"
               /\ ~ Blank(x[3]) => typed = Strip(x[3])
               /\ scope.type \in {"name", "project"} /\ ~ Blank(scope.id) =>
                      typed = Strip(scope.id)
               /\ scope.type = "portfolio" => x[3] \in Linked /\ PortfolioOf(x[3]) = scope.id

\* Whatever is written while its evidence is collected, no advisor reads, no
\* answer cites and no view shows a thing of another organization, an analysis
\* under a project's name it was not typed for, or one outside the scope that
\* was declared; and where a caller declares a scope for several advisors, no
\* chunk outside it reaches a prompt.  A project stored under a blank name is
\* read as the whole organization, and two whose names differ in surrounding
\* white space as one, against the promise of catalog.py (README, section 4):
\* for a blank name nothing is claimed, and names are compared stripped.
AnswersStayInScope ==
    \A q \in Readers :
        LET a == ask[q]
        IN  /\ \A x \in Used(q) : InScope(a.scope, x)
            /\ a.op = "support" =>
                 \A c \in a.context : InScope(a.scope, <<"chunk", c, NoName>>)

\* No advisor that had something to answer from when the question arrived
\* says that there is nothing, whatever the model cites or fails to cite, and
\* what is presented as a correlation or a source is of advisors that had
\* evidence.
AnswersAreGrounded ==
    \A q \in Readers :
        LET a == ask[q]
        IN  /\ a.ran \cap a.expected \subseteq a.had
            /\ a.outcome = "collectionEmpty" => a.ran \cap a.expected = {}
            /\ UNION Correlations(a.cited) \subseteq a.had
            /\ \A c \in Consolidated(a.cited) : c.advisors # {} /\ c.advisors \subseteq a.had

\* The program and the portfolio units of one strategy answer agree although
\* they are listed in two passes: a portfolio is executed exactly when one of
\* its programs is.
StrategyLevelsAgree ==
    \A q \in Readers :
        ask[q].step = "run" /\ Current(q) = "strategy_advisor" =>
            \A pf \in ask[q].known :
                pf \in ask[q].live <=> \E g \in ask[q].live \cap Programs : programs[g] = pf

=============================================================================

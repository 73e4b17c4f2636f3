------------------------------ MODULE Workspace ------------------------------
(***************************************************************************)
(* What one organization stores about its work: the domain tree (portfolio,*)
(* program, project) and the analyses a language model makes of meetings,  *)
(* risks and statuses, with the requests that write them.  The tree and    *)
(* the analyses meet in the projects table: a project is a row under a     *)
(* portfolio's program, or one that saving an analysis creates for the     *)
(* free text its user typed as a name.  Each step is one transaction.      *)
(*                                                                         *)
(* A name is <<key, padded>>: what is left when surrounding white space is *)
(* stripped, and whether there was some.  Names are unique in an           *)
(* organization, so a project is known by its name as stored.              *)
(***************************************************************************)
EXTENDS Naturals, Sequences, FiniteSets

CONSTANTS
    Writers,     \* requests that write
    Keys,        \* project names
    TypedNames,  \* names that users type (bound)
    Documents,   \* what they have analysed: <<kind, typed name>> (bound)
    StoredNames, \* names that projects are created with (bound)
    Portfolios, Programs,
    Foreign,     \* an id that belongs to another organization
    MaxAnalyses  \* bound: analyses ever saved

ASSUME WritersAssumption == IsFiniteSet(Writers)
ASSUME MaxAnalysesAssumption == MaxAnalyses \in Nat \ {0}
ASSUME KeysAssumption == "" \notin Keys /\ "(sem projeto)" \notin Keys
ASSUME ForeignAssumption == Foreign \notin Portfolios \cup Programs

VARIABLES
    portfolios,  \* portfolios rows of the organization
    programs,    \* programs rows: the portfolio of each
    projects,    \* projects rows: the program of each
    analyses,    \* analysis_records, in the order of their ids
    work         \* what each writing request is doing

rowVars == <<portfolios, programs, projects, analyses>>
workspaceVars == <<rowVars, work>>

-----------------------------------------------------------------------------
(* Names. *)

Typed == (Keys \X BOOLEAN) \cup {<<"", TRUE>>}
Fallback == <<"(sem projeto)", FALSE>>
Names == Typed \cup {Fallback}

ASSUME NamesAssumption == TypedNames \cup StoredNames \subseteq Names

Blank(name) == name[1] = ""
Strip(name) == <<name[1], FALSE>>

\* normalize_project_name, and the fallback for what it leaves unnamed.
ProjectFor(name) == IF Blank(name) THEN Fallback ELSE Strip(name)

-----------------------------------------------------------------------------
(* Rows. *)

NoRow == "no row"
Unlinked == "no program"

\* The marks are no ids, and the rows of two tables are told apart.
ASSUME RowsAssumption ==
    /\ {NoRow, Unlinked} \cap (Portfolios \cup Programs) = {}
    /\ Portfolios \cap Programs = {}

Kinds == {"risk", "status", "meeting"}

ASSUME DocumentsAssumption == Documents \subseteq Kinds \X TypedNames

Analysis ==
    [org: {"own", "other"}, project: Names, kind: Kinds,
     structured: BOOLEAN,   \* the model's output could be parsed
     typed: Names]          \* history: the name the user typed

Linked == {n \in Names : projects[n] \in Programs}

Members(program) == {n \in Names : projects[n] = program}

ProgramsOf(portfolio) == {g \in Programs : programs[g] = portfolio}

PortfolioOf(name) == programs[projects[name]]

WorkSteps == {"idle", "lookup", "save", "parent", "insert"}

WorkState ==
    [step: WorkSteps, op: {"none", "analysis", "portfolio", "program", "project"},
     name: Names, kind: Kinds, structured: BOOLEAN,
     parent: Portfolios \cup Programs \cup {Foreign},
     row: Portfolios \cup Programs \cup {Foreign},   \* the id a new row will get
     found: BOOLEAN]    \* get_or_create_project_for_name found the project

Resting ==
    [step |-> "idle", op |-> "none", name |-> Fallback, kind |-> "risk", structured |-> TRUE,
     parent |-> Foreign, row |-> Foreign, found |-> FALSE]

WorkspaceTypeOK ==
    /\ portfolios \subseteq Portfolios
    /\ programs \in [Programs -> portfolios \cup {NoRow}]
    /\ \A n \in Names : projects[n] \in {NoRow, Unlinked} \/ programs[projects[n]] \in portfolios
    /\ analyses \in Seq(Analysis)
    /\ \A i \in DOMAIN analyses :
         analyses[i].org = "own" => projects[analyses[i].project] # NoRow
    /\ work \in [Writers -> WorkState]

\* Another organization already has an analysis under one of the names.
WorkspaceInit ==
    /\ portfolios = {}
    /\ programs = [g \in Programs |-> NoRow]
    /\ projects = [n \in Names |-> NoRow]
    /\ \E k \in Keys :
         analyses = << [org |-> "other", project |-> <<k, FALSE>>, kind |-> "risk",
                        structured |-> TRUE, typed |-> <<k, FALSE>>] >>
    /\ work = [w \in Writers |-> Resting]

WorkAt(w, step) == work[w].step = step

WorkGoto(w, step) == work' = [work EXCEPT ![w].step = step]

Finish(w) == work' = [work EXCEPT ![w] = Resting]

Task(op, step) == [Resting EXCEPT !.op = op, !.step = step]

BeginWork(w, state) ==
    /\ WorkAt(w, "idle")
    /\ work' = [work EXCEPT ![w] = state]
    /\ UNCHANGED rowVars

-----------------------------------------------------------------------------
(* POST /meetings/analyze, /risks/analyze and /projects/analyze: the model, *)
(* which reads nothing stored, then save_analysis.  The audit entry and the *)
(* events that follow what is committed are not part of this module.        *)

\* What the model answers may not be the JSON object it was asked for.
BeginAnalysis(w, kind, typed) ==
    \E structured \in BOOLEAN :
        BeginWork(w, [Task("analysis", "lookup") EXCEPT !.kind = kind, !.name = typed,
                                                        !.structured = structured])

\* get_or_create_project_for_name, the query.
LookupProject(w) ==
    /\ WorkAt(w, "lookup")
    /\ work' = [work EXCEPT ![w].step = "save",
                            ![w].found = (projects[ProjectFor(work[w].name)] # NoRow)]
    /\ UNCHANGED rowVars

\* The project's row when there was none, and the analysis, in one COMMIT.
SaveAnalysis(w) ==
    LET q == work[w]
        project == ProjectFor(q.name)
    IN  /\ WorkAt(w, "save")
        /\ q.found \/ projects[project] = NoRow
        /\ projects' = IF q.found THEN projects ELSE [projects EXCEPT ![project] = Unlinked]
        /\ analyses' = Append(analyses,
              [org |-> "own", project |-> project, kind |-> q.kind,
               structured |-> q.structured, typed |-> q.name])
        /\ Finish(w)
        /\ UNCHANGED <<portfolios, programs>>

\* The project appeared since the query: the unique constraint ends the
\* request with an error, and what the model said is gone.
LoseAnalysis(w) ==
    /\ WorkAt(w, "save")
    /\ ~ work[w].found
    /\ projects[ProjectFor(work[w].name)] # NoRow
    /\ Finish(w)
    /\ UNCHANGED rowVars

-----------------------------------------------------------------------------
(* POST /portfolios, /programs and /projects-delivery. *)

BeginPortfolio(w, row) ==
    BeginWork(w, [Task("portfolio", "insert") EXCEPT !.row = row])

BeginProgram(w, row, parent) ==
    BeginWork(w, [Task("program", "parent") EXCEPT !.row = row, !.parent = parent])

BeginProject(w, name, parent) ==
    BeginWork(w, [Task("project", "parent") EXCEPT !.name = name, !.parent = parent])

\* get_portfolio or get_program within the organization; nothing there, or
\* another organization's, is 404.
CheckParent(w) ==
    LET q == work[w]
        mine == IF q.op = "program" THEN q.parent \in portfolios
                ELSE q.parent \in Programs /\ programs[q.parent] # NoRow
    IN  /\ WorkAt(w, "parent")
        /\ IF mine THEN WorkGoto(w, "insert") ELSE Finish(w)
        /\ UNCHANGED rowVars

\* The unique constraint on codes or names the row would break.
Taken(q) ==
    CASE q.op = "portfolio" -> q.row \in portfolios
      [] q.op = "program" -> programs[q.row] # NoRow
      [] q.op = "project" -> projects[q.name] # NoRow

InsertPortfolio(w) ==
    /\ WorkAt(w, "insert") /\ work[w].op = "portfolio" /\ ~ Taken(work[w])
    /\ portfolios' = portfolios \cup {work[w].row}
    /\ Finish(w)
    /\ UNCHANGED <<programs, projects, analyses>>

InsertProgram(w) ==
    /\ WorkAt(w, "insert") /\ work[w].op = "program" /\ ~ Taken(work[w])
    /\ programs' = [programs EXCEPT ![work[w].row] = work[w].parent]
    /\ Finish(w)
    /\ UNCHANGED <<portfolios, projects, analyses>>

\* create_project_with_domain stores the name as it was typed.
InsertProject(w) ==
    /\ WorkAt(w, "insert") /\ work[w].op = "project" /\ ~ Taken(work[w])
    /\ projects' = [projects EXCEPT ![work[w].name] = work[w].parent]
    /\ Finish(w)
    /\ UNCHANGED <<portfolios, programs, analyses>>

RejectInsert(w) ==
    /\ WorkAt(w, "insert") /\ Taken(work[w])
    /\ Finish(w)
    /\ UNCHANGED rowVars

-----------------------------------------------------------------------------

\* An exception anywhere ends the request; what is committed stays.
FailWork(w) ==
    /\ ~ WorkAt(w, "idle")
    /\ Finish(w)
    /\ UNCHANGED rowVars

\* attach_project_to_program links a project that analyses created.  Only the
\* migration of legacy projects uses it, with no request being served.
AttachProject(name, program) ==
    /\ \A w \in Writers : WorkAt(w, "idle")
    /\ projects[name] = Unlinked
    /\ programs[program] # NoRow
    /\ projects' = [projects EXCEPT ![name] = program]
    /\ UNCHANGED <<portfolios, programs, analyses, work>>

BeginSomeWork(w) ==
    \/ /\ Len(analyses) < MaxAnalyses
       /\ \E d \in Documents : BeginAnalysis(w, d[1], d[2])
    \/ \E row \in Portfolios : BeginPortfolio(w, row)
    \/ \E row \in Programs, parent \in Portfolios \cup {Foreign} : BeginProgram(w, row, parent)
    \/ \E name \in StoredNames, parent \in Programs \cup {Foreign} : BeginProject(w, name, parent)

ContinueWork(w) ==
    \/ LookupProject(w) \/ SaveAnalysis(w) \/ LoseAnalysis(w)
    \/ CheckParent(w) \/ InsertPortfolio(w) \/ InsertProgram(w) \/ InsertProject(w)
    \/ RejectInsert(w) \/ FailWork(w)

=============================================================================

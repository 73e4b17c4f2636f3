--------------------------- MODULE AdvisorCatalog ----------------------------
(***************************************************************************)
(* The static rules of the executive orchestrator: which advisors a        *)
(* question selects under a declared scope, which of their explanations    *)
(* are correlated, and how one answer consolidates what they cite.  They   *)
(* are functions of their arguments; module Advice runs them.              *)
(***************************************************************************)
EXTENDS Naturals, Sequences, FiniteSets

CONSTANT Catalog   \* ADVISOR_IDENTITY_CATALOG, in its order (bound: some of the eight)

Advisors ==
    {"risk_advisor", "delivery_advisor", "portfolio_advisor", "pmo_advisor",
     "executive_advisor", "strategy_advisor", "document_advisor", "governance_advisor"}

ASSUME CatalogAssumption == Catalog \in Seq(Advisors)

ByProject == {"risk_advisor", "delivery_advisor"}
ByOrganization == {"pmo_advisor", "executive_advisor", "strategy_advisor"}
ByDocuments == {"document_advisor", "governance_advisor"}

AnyScope(advisor) ==   \* variant of EligibleScopes: the table as it was before scopes were declared
    {"project", "portfolio", "organization"}

\* ADVISOR_ELIGIBLE_SCOPES.
EligibleScopes(advisor) ==
    CASE advisor \in ByProject -> {"project", "organization"}
      [] advisor = "portfolio_advisor" -> {"portfolio", "organization"}
      [] advisor \in ByOrganization \cup ByDocuments -> {"organization"}

\* The portfolio advisor needs a portfolio whatever the table says.
MeetsPrecondition(advisor, scopeType) ==
    /\ advisor = "portfolio_advisor" => scopeType = "portfolio"
    /\ scopeType \in EligibleScopes(advisor)

\* evaluate_selection_rule: matching is the set of advisors whose vocabulary
\* or name the signals match.
Selected(matching, scopeType) ==
    LET chosen(a) == a \in matching /\ MeetsPrecondition(a, scopeType)
        upTo[n \in 0 .. Len(Catalog)] ==
            IF n = 0 THEN <<>>
            ELSE IF chosen(Catalog[n]) THEN Append(upTo[n - 1], Catalog[n])
            ELSE upTo[n - 1]
    IN  upTo[Len(Catalog)]

\* A citation is <<advisor, item>>; the advisors that cited anything.
Sources(cited) == {c[1] : c \in cited}

\* correlate: every two explanations that cite something.  No route asks for the
\* capability that keeps only the structural pairs of these.
Correlations(cited) == {pair \in SUBSET Sources(cited) : Cardinality(pair) = 2}

\* _consolidate_citations: one entry for each source, with all who cited it.
\* A source is the first two parts of an item: its type and its id.
SourceOf(item) == <<item[1], item[2]>>

Consolidated(cited) ==
    { [source |-> s, advisors |-> {c[1] : c \in {d \in cited : SourceOf(d[2]) = s}}] :
        s \in {SourceOf(c[2]) : c \in cited} }

=============================================================================

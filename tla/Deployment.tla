----------------------------- MODULE Deployment -----------------------------
(***************************************************************************)
(* An installation over its releases: the schema revisions that change     *)
(* data (alembic/versions), upgraded and downgraded one at a time on       *)
(* PostgreSQL, the boot of the server at the newest one, and what the      *)
(* server stores.  A migration and each of the boot's three identities is  *)
(* one transaction; what fails leaves the rows alone.                      *)
(*                                                                         *)
(* The revisions between those in Revisions create tables and columns that *)
(* no row below has.  A project is known by <<organization, name>>, which  *)
(* is unique and never changes.  The name an analysis is stored under is   *)
(* what is left of it without surrounding white space: every migration and *)
(* the server strip it before they use it; "" stands for nothing.          *)
(***************************************************************************)
EXTENDS Naturals, FiniteSets

CONSTANTS
    Labels,         \* what organizations are called
    SlugOf,         \* organization_slug of a label
    Default, Demo,  \* the labels of SEED_ORGANIZATIONS
    Pilot,          \* PILOT_ORGANIZATION_NAME
    Emails, AdminEmail, DemoEmail,
    ProjectKeys,    \* project names
    Seeded,         \* those among the seed's PROJECTS
    FreeTexts,      \* names that analyses are stored under (bound)
    Records,        \* ids of analyses (bound)
    MaxProjects       \* bound: projects created by hand, and by analyses

Untitled == "(sem projeto)"

\* A name has 255 characters at most (database/models.py), so there are finitely many.
ASSUME LabelsAssumption ==
    {Default, Demo, Pilot} \subseteq Labels /\ Default # Demo /\ IsFiniteSet(Labels)
ASSUME SlugAssumption == DOMAIN SlugOf = Labels /\ SlugOf[Default] # SlugOf[Demo]
ASSUME EmailsAssumption == {AdminEmail, DemoEmail} \subseteq Emails
ASSUME SeededAssumption == Seeded \subseteq ProjectKeys /\ {"", Untitled} \cap ProjectKeys = {}
ASSUME TextsAssumption == FreeTexts \subseteq ProjectKeys \cup {"", Untitled}

VARIABLES
    revision,      \* alembic_version
    organizations, \* organizations rows
    delivery,      \* projects rows
    records,       \* analysis_records rows
    hierarchy,     \* organizations that have the seed's portfolios and programs
    accounts,      \* users rows
    server         \* how far the process has started

deploymentVars == <<revision, organizations, delivery, records, hierarchy, accounts, server>>

-----------------------------------------------------------------------------

Revisions == <<1, 2, 4, 5, 8, 10, 14, 15>>
NewestRevision == 15

\* A label is given to one organization at a time.
OrganizationIds == 1..Cardinality(Labels)

NoSlug == <<"", 0>>      \* <<base, suffix>>
NoOrganization == 0
NoProject == <<0, "">>
NullName == ""

Slugs == {SlugOf[l] : l \in Labels} \X OrganizationIds

OrganizationRow == [id: OrganizationIds, label: Labels, slug: Slugs \cup {NoSlug}]

ProjectRow ==
    [org: OrganizationIds, name: ProjectKeys \cup {Untitled},
     legacy: BOOLEAN,                  \* legacy_project_name is set
     code: Seeded \cup {""},           \* the seed project whose code it has
     attached: BOOLEAN]                \* to a program of the seed

RecordRow ==
    [id: Records, name: ProjectKeys \cup {"", Untitled},
     project: (OrganizationIds \X (ProjectKeys \cup {Untitled})) \cup {NoProject},
     org: {NoOrganization} \cup OrganizationIds]

Key(project) == <<project.org, project.name>>

ProjectOf(record) == CHOOSE p \in delivery : Key(p) = record.project

ServerStates == {"down", "administrator", "demo", "pilot", "up", "misconfigured", "failed"}

DeploymentTypeOK ==
    /\ \E i \in DOMAIN Revisions : Revisions[i] = revision
    /\ organizations \subseteq OrganizationRow
    /\ delivery \subseteq ProjectRow
    /\ records \subseteq RecordRow
    /\ \A r \in records : r.project # NoProject => \E p \in delivery : Key(p) = r.project
    /\ hierarchy \subseteq {o.id : o \in organizations}
    /\ accounts \subseteq {o.id : o \in organizations} \X Emails
    /\ server \in ServerStates

\* The first release stored analyses and knew no organizations.
DeploymentInit ==
    /\ revision = 1
    /\ organizations = {}
    /\ delivery = {}
    /\ \E earlier \in SUBSET Records : \E text \in [earlier -> FreeTexts] :
         records = {[id |-> r, name |-> text[r], project |-> NoProject,
                     org |-> NoOrganization] : r \in earlier}
    /\ hierarchy = {}
    /\ accounts = {}
    /\ server = "down"

Named(label) == {o \in organizations : o.label = label}

IdOf(label) == (CHOOSE o \in Named(label) : TRUE).id

\* A new organizations row; its slug and its label must be new.
NextOrganization == 1 + Cardinality(organizations)

CanInsert(label) ==
    /\ Named(label) = {}
    /\ \A o \in organizations : o.slug # <<SlugOf[label], 1>>

With(label) ==
    organizations \cup {[id |-> NextOrganization, label |-> label, slug |-> <<SlugOf[label], 1>>]}

-----------------------------------------------------------------------------
(* alembic upgrade and downgrade, while the server is stopped. *)

Migrate(from, to) ==
    /\ server = "down"
    /\ revision = from
    /\ revision' = to
    /\ UNCHANGED server

\* The project name that stands for a stored text.
Resolved(text) == IF text = "" THEN Untitled ELSE text

\* 0002: the default organization and a project for every name in use,
\* whose legacy name is that of the first analysis found to have it.
CreateEnterpriseTables ==
    /\ Migrate(1, 2)
    /\ organizations' = {[id |-> 1, label |-> Default, slug |-> NoSlug]}
    /\ \E first \in [{Resolved(r.name) : r \in records} -> records] :
         /\ \A n \in DOMAIN first : Resolved(first[n].name) = n
         /\ delivery' = {[org |-> 1, name |-> n, legacy |-> first[n].name # "",
                          code |-> "", attached |-> FALSE] : n \in DOMAIN first}
    /\ records' = {[r EXCEPT !.project = <<1, Resolved(r.name)>>] : r \in records}
    /\ UNCHANGED <<hierarchy, accounts>>

DropEnterpriseTables ==
    /\ Migrate(2, 1)
    /\ organizations' = {}
    /\ delivery' = {}
    /\ records' = {[r EXCEPT !.project = NoProject] : r \in records}
    /\ accounts' = {}
    /\ UNCHANGED hierarchy

\* 0004: a slug for every organization, with a suffix when it is taken.
BackfillSlugs ==
    /\ Migrate(2, 4)
    /\ organizations' =
         {[o EXCEPT !.slug =
             LET base == SlugOf[o.label]
             IN  <<base, Cardinality({p \in organizations :
                                        p.id <= o.id /\ SlugOf[p.label] = base})>>]
            : o \in organizations}
    /\ UNCHANGED <<delivery, records, hierarchy, accounts>>

DropSlugs ==
    /\ Migrate(4, 2)
    /\ organizations' = {[o EXCEPT !.slug = NoSlug] : o \in organizations}
    /\ UNCHANGED <<delivery, records, hierarchy, accounts>>

\* 0005: portfolios, programs and the domain columns of projects.
CreateDomainTables ==
    /\ Migrate(4, 5)
    /\ UNCHANGED <<organizations, delivery, records, hierarchy, accounts>>

DropDomainTables ==
    /\ Migrate(5, 4)
    /\ delivery' = {[p EXCEPT !.code = "", !.attached = FALSE] : p \in delivery}
    /\ hierarchy' = {}
    /\ UNCHANGED <<organizations, records, accounts>>

\* 0008: both organizations by label, then the seed in each.  A project that
\* already has the name joins the program unless it is in one.
SeedOrganizations(rows) == {o.id : o \in {p \in rows : p.label \in {Default, Demo}}}

SeededRows(org) ==
    LET Fresh(name) == [org |-> org, name |-> name, legacy |-> FALSE, code |-> name,
                        attached |-> TRUE]
        rows == {p \in delivery : p.org = org /\ p.name \in Seeded}
    IN  {IF p.attached THEN p ELSE [p EXCEPT !.code = p.name, !.attached = TRUE] : p \in rows}
          \cup {Fresh(name) : name \in Seeded \ {p.name : p \in rows}}

SeedDomain ==
    /\ Migrate(5, 8)
    /\ LET missing == {l \in {Default, Demo} : Named(l) = {}}
           Position(l) == IF l = Demo /\ Default \in missing THEN 1 ELSE 0
           rows == organizations \cup
                     {[id |-> NextOrganization + Position(l), label |-> l,
                       slug |-> <<SlugOf[l], 1>>] : l \in missing}
           seedOrgs == SeedOrganizations(rows)
       IN  /\ \A l \in missing : CanInsert(l)
           /\ organizations' = rows
           /\ hierarchy' = hierarchy \cup seedOrgs
           /\ delivery' = {p \in delivery : p.org \notin seedOrgs \/ p.name \notin Seeded}
                            \cup UNION {SeededRows(o) : o \in seedOrgs}
    /\ UNCHANGED <<records, accounts>>

\* The downgrade finds one project for each code: it stays, without domain
\* fields, if it has a legacy name, else it is deleted, as the seed's programs
\* and portfolios are.  The database refuses to delete what is referred to.
UnseedDomain ==
    /\ Migrate(8, 5)
    /\ LET seedOrgs == SeedOrganizations(organizations)
           coded == {p \in delivery : p.org \in seedOrgs /\ p.code # ""}
       IN  \E found \in SUBSET coded :
             LET deleted == {p \in found : ~p.legacy}
                 rows == {IF p \in found THEN [p EXCEPT !.code = "", !.attached = FALSE] ELSE p
                            : p \in delivery \ deleted}
             IN  /\ \A p \in coded :
                      Cardinality({q \in found : q.org = p.org /\ q.code = p.code}) = 1
                 /\ \A p \in deleted : \A r \in records : r.project # Key(p)
                 /\ \A p \in rows : p.org \in seedOrgs => ~p.attached
                 /\ delivery' = rows
                 /\ hierarchy' = hierarchy \ seedOrgs
    /\ UNCHANGED <<organizations, records, accounts>>

\* 0010: the organization of an analysis is its project's; none may be left out.
ScopeRecords ==
    /\ Migrate(8, 10)
    /\ \A r \in records : r.project # NoProject
    /\ records' = {[r EXCEPT !.org = r.project[1]] : r \in records}
    /\ UNCHANGED <<organizations, delivery, hierarchy, accounts>>

UnscopeRecords ==
    /\ Migrate(10, 8)
    /\ records' = {[r EXCEPT !.org = NoOrganization] : r \in records}
    /\ UNCHANGED <<organizations, delivery, hierarchy, accounts>>

\* 0014: by name, the project of an analysis that has none.
Relinked(r) ==
    LET project == <<r.org, Resolved(r.name)>>
    IN  IF r.project = NoProject /\ \E p \in delivery : Key(p) = project
        THEN [r EXCEPT !.project = project]
        ELSE r

RelinkRecords ==
    /\ Migrate(10, 14)
    /\ records' = {Relinked(r) : r \in records}
    /\ UNCHANGED <<organizations, delivery, hierarchy, accounts>>

KeepLinks ==
    /\ Migrate(14, 10)
    /\ UNCHANGED <<organizations, delivery, records, hierarchy, accounts>>

\* 0015: the names go; the downgrade takes them back from the projects.
DropNames ==
    /\ Migrate(14, NewestRevision)
    /\ \A r \in records : r.project # NoProject
    /\ records' = {[r EXCEPT !.name = NullName] : r \in records}
    /\ UNCHANGED <<organizations, delivery, hierarchy, accounts>>

\* Variant: the downgrade only adds the column back.
NameLeftEmpty(r) == NullName

RestoredName(r) == ProjectOf(r).name

RestoreNames ==
    /\ Migrate(NewestRevision, 14)
    /\ records' = {[r EXCEPT !.name = RestoredName(r)] : r \in records}
    /\ UNCHANGED <<organizations, delivery, hierarchy, accounts>>

Migration ==
    \/ CreateEnterpriseTables \/ DropEnterpriseTables
    \/ BackfillSlugs \/ DropSlugs
    \/ CreateDomainTables \/ DropDomainTables
    \/ SeedDomain \/ UnseedDomain
    \/ ScopeRecords \/ UnscopeRecords
    \/ RelinkRecords \/ KeepLinks
    \/ DropNames \/ RestoreNames

-----------------------------------------------------------------------------
(* Starting the server: its configuration, then up to three identities. *)

Started(state) == revision = NewestRevision /\ server = state

Boot ==
    /\ Started("down")
    /\ server' \in {"administrator", "misconfigured"}
    /\ UNCHANGED <<revision, organizations, delivery, records, hierarchy, accounts>>

\* get_or_create_organization and its administrator, one transaction.
Provide(label, email) ==
    IF Named(label) # {}
    THEN /\ accounts' = accounts \cup {<<IdOf(label), email>>}
         /\ UNCHANGED organizations
    ELSE /\ CanInsert(label)
         /\ organizations' = With(label)
         /\ accounts' = accounts \cup {<<NextOrganization, email>>}

\* The environment may not ask for an identity.
BootStep(from, label, email, to) ==
    /\ Started(from)
    /\ \/ server' = to /\ Provide(label, email)
       \/ server' = to /\ UNCHANGED <<organizations, accounts>>
       \/ /\ Named(label) = {} /\ ~CanInsert(label)
          /\ server' = "failed"
          /\ UNCHANGED <<organizations, accounts>>
    /\ UNCHANGED <<revision, delivery, records, hierarchy>>

BootstrapAdministrator == BootStep("administrator", Default, AdminEmail, "demo")
BootstrapDemoUser == BootStep("demo", Demo, DemoEmail, "pilot")
BootstrapOrganization == BootStep("pilot", Pilot, AdminEmail, "up")

\* A crash, a stop, and the end of a start that failed.
Stop ==
    /\ server # "down"
    /\ server' = "down"
    /\ UNCHANGED <<revision, organizations, delivery, records, hierarchy, accounts>>

-----------------------------------------------------------------------------
(* What its users store meanwhile. *)

\* update_organization_name: the slug stays.
RenameOrganization ==
    /\ Started("up")
    /\ \E o \in organizations, label \in Labels :
         /\ Named(label) = {}
         /\ organizations' = (organizations \ {o}) \cup {[o EXCEPT !.label = label]}
    /\ UNCHANGED <<revision, delivery, records, hierarchy, accounts, server>>

\* create_project, under a program of the seed; any code goes.
CreateDeliveryProject ==
    /\ Started("up")
    /\ Cardinality(delivery) < MaxProjects
    /\ \E org \in hierarchy, name \in ProjectKeys, code \in Seeded \cup {""} :
         LET project == [org |-> org, name |-> name, legacy |-> FALSE, code |-> code,
                         attached |-> TRUE]
         IN  /\ \A p \in delivery : Key(p) # Key(project)
             /\ delivery' = delivery \cup {project}
    /\ UNCHANGED <<revision, organizations, records, hierarchy, accounts, server>>

\* save_analysis with get_or_create_project_for_name.
StoreRecord ==
    /\ Started("up")
    /\ \E i \in Records \ {r.id : r \in records}, o \in organizations, text \in FreeTexts :
         LET project == <<o.id, Resolved(text)>>
         IN  /\ records' = records \cup {[id |-> i, name |-> NullName, project |-> project,
                                          org |-> o.id]}
             /\ delivery' =
                  IF \E p \in delivery : Key(p) = project THEN delivery
                  ELSE delivery \cup {[org |-> o.id, name |-> Resolved(text),
                                       legacy |-> text # "", code |-> "",
                                       attached |-> FALSE]}
    /\ UNCHANGED <<revision, organizations, hierarchy, accounts, server>>

DeploymentNext ==
    \/ Migration
    \/ Boot \/ BootstrapAdministrator \/ BootstrapDemoUser \/ BootstrapOrganization \/ Stop
    \/ RenameOrganization \/ CreateDeliveryProject \/ StoreRecord

DeploymentSpec == DeploymentInit /\ [][DeploymentNext]_deploymentVars

-----------------------------------------------------------------------------

\* The name a reader finds an analysis under.
ShownName(r) == IF r.project = NoProject THEN Resolved(r.name) ELSE r.project[2]

Owner(r) == r.project[1]

(***************************************************************************)
(* No sequence of upgrades and downgrades loses an analysis or files it    *)
(* under another project's name: through the releases that knew projects   *)
(* by the texts users typed and those that know them by id, it keeps the   *)
(* name a reader found it under (0002, 0010, 0014 and 0015 each move that  *)
(* information from one column to another).  Of its organization this says *)
(* only that a step between two releases that have organizations leaves it *)
(* where it is: down to the first release and up again, 0002 puts every    *)
(* analysis into the default one.                                          *)
(***************************************************************************)
AnalysesKeepTheirProject ==
    [][\A r \in records : \E s \in records' :
         /\ s.id = r.id
         /\ ShownName(s) = ShownName(r)
         /\ (revision > 1 /\ revision' > 1) => Owner(s) = Owner(r)]_deploymentVars

(***************************************************************************)
(* A start with a valid configuration succeeds, however the installation   *)
(* was used before: the bootstrap is "safe to run on every boot"           *)
(* (src/src/main.py, lifespan).                                            *)
(***************************************************************************)
EveryBootServes == server # "failed"
=============================================================================

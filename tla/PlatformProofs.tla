--------------------------- MODULE PlatformProofs ----------------------------
(***************************************************************************)
(* Proofs about Deployment and EvmMetrics, for any organizations, projects,*)
(* analyses, amounts and calendars, and about the types of all the parts   *)
(* that MCPlatform runs.                                                   *)
(*                                                                         *)
(* Where analyses are filed: an analysis is under a project exactly at the *)
(* revisions that have projects (HasProjects), a reference leads to a row  *)
(* (Referenced), and as long as the text that the user typed is stored it  *)
(* says the same as the reference (TextsAgree).  Each migration takes the  *)
(* place from the one that is there to the one that will be (SamePlace).   *)
(*                                                                         *)
(* Rows: organizations are numbered without gaps, one to a label           *)
(* (NumberedRows), so there are no more than labels, and everything that   *)
(* refers to one refers to one that is there (PlacesInv).                  *)
(*                                                                         *)
(* Figures: the summary of a day is a function of what is stored by then   *)
(* (SummaryKnown, SummaryUnknown), so what is said of it is arithmetic     *)
(* over natural numbers: EstimateOf and DeviationOf bring the estimate and *)
(* its deviation to one fraction each, and the ratios of two days are      *)
(* compared by their cross products (CostRatioBelow).                      *)
(***************************************************************************)
EXTENDS MCPlatform, AccessProofs, AdviceProofs

ProjectNames == ProjectKeys \cup {Untitled}
StoredTexts == ProjectKeys \cup {"", Untitled}

\* The shapes of the rows, with ids and suffixes that may be any number.
AnySlug == ({SlugOf[l] : l \in Labels} \X Nat) \cup {NoSlug}
AnyOrganization == [id: Nat, label: Labels, slug: AnySlug]
AnyProject ==
    [org: Nat, name: ProjectNames, legacy: BOOLEAN, code: Seeded \cup {""}, attached: BOOLEAN]
AnyRecord ==
    [id: Records, name: StoredTexts, project: (Nat \X ProjectNames) \cup {NoProject}, org: Nat]

OrganizationShape ==
    /\ organizations \subseteq AnyOrganization
    /\ IsFiniteSet(organizations)
    /\ hierarchy \subseteq Nat

RowShape ==
    /\ delivery \subseteq AnyProject
    /\ records \subseteq AnyRecord

AllRevisions == {1, 2, 4, 5, 8, 10, 14, 15}

\* Analyses have a project at every revision but the first.
HasProjects == \A r \in records : r.project = NoProject <=> revision = 1

Referenced ==
    \A r \in records : r.project # NoProject => \E p \in delivery : Key(p) = r.project

TextsAgree ==
    revision # NewestRevision =>
        \A r \in records : r.project # NoProject => Resolved(r.name) = r.project[2]

DeploymentInv ==
    /\ revision \in AllRevisions
    /\ OrganizationShape
    /\ RowShape
    /\ HasProjects
    /\ Referenced
    /\ TextsAgree

-----------------------------------------------------------------------------
(* Names of projects. *)

LEMMA NamesNotEmpty == "" \notin ProjectNames /\ Seeded \subseteq ProjectKeys
  BY SeededAssumption DEF ProjectNames, Untitled

LEMMA ResolvedIsAName == ASSUME NEW text \in StoredTexts PROVE Resolved(text) \in ProjectNames
  BY DEF StoredTexts, ProjectNames, Resolved

LEMMA NoProjectHasNoName ==
    ASSUME NEW org, NEW name \in ProjectNames PROVE <<org, name>> # NoProject
  BY NamesNotEmpty DEF NoProject

LEMMA DeploymentInitInv == DeploymentInit => DeploymentInv
  <1> SUFFICES ASSUME DeploymentInit PROVE DeploymentInv
    OBVIOUS
  <1>0. PICK earlier \in SUBSET Records : \E text \in [earlier -> FreeTexts] :
          records = {[id |-> r, name |-> text[r], project |-> NoProject,
                      org |-> NoOrganization] : r \in earlier}
    BY DEF DeploymentInit
  <1>1. PICK text \in [earlier -> FreeTexts] :
          records = {[id |-> r, name |-> text[r], project |-> NoProject,
                      org |-> NoOrganization] : r \in earlier}
    BY <1>0
  <1>2. \A r \in earlier : text[r] \in StoredTexts
    BY TextsAssumption DEF StoredTexts
  <1>3. records \subseteq AnyRecord /\ \A r \in records : r.project = NoProject
    BY <1>1, <1>2 DEF AnyRecord, NoOrganization
  <1>4. OrganizationShape /\ delivery \subseteq AnyProject /\ revision = 1
    BY FS_EmptySet DEF DeploymentInit, OrganizationShape
  <1> QED BY <1>3, <1>4 DEF DeploymentInv, RowShape, HasProjects, Referenced, TextsAgree, AllRevisions,
             NewestRevision

-----------------------------------------------------------------------------
(* Organizations. *)

LEMMA ImageFinite ==
    ASSUME NEW S, IsFiniteSet(S), NEW f, f = [x \in S |-> f[x]]
    PROVE  IsFiniteSet({f[x] : x \in S})
  <1>1. f \in Surjection(S, {f[x] : x \in S})
    BY DEF Surjection
  <1> QED BY <1>1, FS_Surjection

LEMMA NextIsNumber ==
    ASSUME OrganizationShape
    PROVE  NextOrganization \in Nat
  BY FS_CardinalityType DEF OrganizationShape, NextOrganization

\* A new organizations row has the shape of one.
LEMMA NewOrganization ==
    ASSUME NEW l \in Labels, NEW i \in Nat
    PROVE  [id |-> i, label |-> l, slug |-> <<SlugOf[l], 1>>] \in AnyOrganization
  BY DEF AnyOrganization, AnySlug

LEMMA LabelsKnown == Default \in Labels /\ Demo \in Labels /\ Pilot \in Labels
  BY LabelsAssumption

\* Inserting under a label keeps the shape.
LEMMA ProvideShape ==
    ASSUME OrganizationShape, NEW l \in Labels, NEW email,
           Provide(l, email) \/ UNCHANGED organizations
    PROVE  organizations' \subseteq AnyOrganization /\ IsFiniteSet(organizations')
  <1> DEFINE new == [id |-> NextOrganization, label |-> l, slug |-> <<SlugOf[l], 1>>]
  <1>1. new \in AnyOrganization
    BY NextIsNumber, NewOrganization
  <1>2. organizations' = organizations \/ organizations' = organizations \cup {new}
    BY DEF Provide, With
  <1> HIDE DEF new
  <1>3. IsFiniteSet(organizations \cup {new})
    BY FS_AddElement DEF OrganizationShape
  <1> QED BY <1>1, <1>2, <1>3 DEF OrganizationShape

LEMMA OrganizationStep ==
    ASSUME OrganizationShape, [DeploymentNext]_deploymentVars
    PROVE  OrganizationShape'
  <1> USE DEF OrganizationShape
  <1>1. ASSUME CreateEnterpriseTables PROVE OrganizationShape'
    <2> DEFINE o == [id |-> 1, label |-> Default, slug |-> NoSlug]
    <2>1. o \in AnyOrganization
      BY LabelsKnown DEF AnyOrganization, AnySlug
    <2>2. organizations' = {o} /\ hierarchy' = hierarchy
      BY <1>1 DEF CreateEnterpriseTables
    <2> HIDE DEF o
    <2> QED BY <2>1, <2>2, FS_Singleton
  <1>2. ASSUME DropEnterpriseTables PROVE OrganizationShape'
    BY <1>2, FS_EmptySet DEF DropEnterpriseTables
  <1>3. ASSUME BackfillSlugs PROVE OrganizationShape'
    <2> DEFINE same(o) == {p \in organizations : p.id <= o.id /\ SlugOf[p.label] = SlugOf[o.label]}
               new(o) == [o EXCEPT !.slug = <<SlugOf[o.label], Cardinality(same(o))>>]
    <2>1. organizations' = {new(o) : o \in organizations} /\ hierarchy' = hierarchy
      BY <1>3 DEF BackfillSlugs
    <2>2. ASSUME NEW o \in organizations PROVE new(o) \in AnyOrganization
      <3>1. same(o) \subseteq organizations
        OBVIOUS
      <3>2. Cardinality(same(o)) \in Nat
        BY <3>1, FS_Subset, FS_CardinalityType
      <3> HIDE DEF same
      <3>3. <<SlugOf[o.label], Cardinality(same(o))>> \in AnySlug
        BY <3>2 DEF AnySlug, AnyOrganization
      <3> QED BY <3>3 DEF AnyOrganization
    <2> HIDE DEF new
    <2> DEFINE f == [o \in organizations |-> new(o)]
    <2>3. IsFiniteSet({f[o] : o \in organizations})
      BY ImageFinite
    <2>4. organizations' = {f[o] : o \in organizations}
      BY <2>1
    <2> QED BY <2>1, <2>2, <2>3, <2>4
  <1>4. ASSUME DropSlugs PROVE OrganizationShape'
    <2> DEFINE new(o) == [o EXCEPT !.slug = NoSlug]
    <2>1. organizations' = {new(o) : o \in organizations} /\ hierarchy' = hierarchy
      BY <1>4 DEF DropSlugs
    <2>2. ASSUME NEW o \in organizations PROVE new(o) \in AnyOrganization
      BY DEF AnyOrganization, AnySlug
    <2> HIDE DEF new
    <2> DEFINE f == [o \in organizations |-> new(o)]
    <2>3. IsFiniteSet({f[o] : o \in organizations})
      BY ImageFinite
    <2>4. organizations' = {f[o] : o \in organizations}
      BY <2>1
    <2> QED BY <2>1, <2>2, <2>3, <2>4
  <1>5. ASSUME DropDomainTables PROVE OrganizationShape'
    BY <1>5 DEF DropDomainTables
  <1>6. ASSUME SeedDomain PROVE OrganizationShape'
    <2> DEFINE missing == {l \in {Default, Demo} : Named(l) = {}}
               Position(l) == IF l = Demo /\ Default \in missing THEN 1 ELSE 0
               f == [l \in missing |-> [id |-> NextOrganization + Position(l), label |-> l,
                                        slug |-> <<SlugOf[l], 1>>]]
    <2>1. organizations' = organizations \cup {f[l] : l \in missing}
      BY <1>6 DEF SeedDomain
    <2>2. hierarchy' = hierarchy \cup SeedOrganizations(organizations')
      BY <1>6 DEF SeedDomain
    <2>3. \A l \in missing : f[l] \in AnyOrganization
      <3>1. ASSUME NEW l \in missing PROVE l \in Labels /\ NextOrganization + Position(l) \in Nat
        BY NextIsNumber, LabelsKnown
      <3> QED BY <3>1, NewOrganization
    <2>4. IsFiniteSet(missing)
      <3>1. IsFiniteSet({Default} \cup {Demo})
        BY FS_Singleton, FS_AddElement
      <3>2. missing \subseteq {Default} \cup {Demo}
        OBVIOUS
      <3> QED BY <3>1, <3>2, FS_Subset
    <2> HIDE DEF f, missing
    <2>5. IsFiniteSet({f[l] : l \in missing})
      BY <2>4, ImageFinite DEF f
    <2>6. organizations' \subseteq AnyOrganization /\ IsFiniteSet(organizations')
      BY <2>1, <2>3, <2>5, FS_Union
    <2>7. SeedOrganizations(organizations') \subseteq Nat
      BY <2>6 DEF SeedOrganizations, AnyOrganization
    <2> QED BY <2>2, <2>6, <2>7
  <1>7. ASSUME UnseedDomain PROVE OrganizationShape'
    BY <1>7 DEF UnseedDomain
  <1>8. ASSUME BootstrapAdministrator \/ BootstrapDemoUser \/ BootstrapOrganization
        PROVE  OrganizationShape'
    <2>1. PICK l \in Labels : \E email : Provide(l, email) \/ UNCHANGED organizations
      BY <1>8, LabelsKnown
         DEF BootstrapAdministrator, BootstrapDemoUser, BootstrapOrganization, BootStep
    <2>2. hierarchy' = hierarchy
      BY <1>8 DEF BootstrapAdministrator, BootstrapDemoUser, BootstrapOrganization, BootStep
    <2> QED BY <2>1, <2>2, ProvideShape
  <1>9. ASSUME RenameOrganization PROVE OrganizationShape'
    <2>1. PICK o \in organizations, l \in Labels :
            organizations' = (organizations \ {o}) \cup {[o EXCEPT !.label = l]}
      BY <1>9 DEF RenameOrganization
    <2> DEFINE new == [o EXCEPT !.label = l]
    <2>2. new \in AnyOrganization
      BY DEF AnyOrganization
    <2> HIDE DEF new
    <2>3. IsFiniteSet(organizations \ {o})
      BY FS_RemoveElement, FS_Subset
    <2>4. IsFiniteSet((organizations \ {o}) \cup {new})
      BY <2>3, FS_AddElement
    <2> QED BY <1>9, <2>1, <2>2, <2>4 DEF RenameOrganization, new
  <1>10. CASE UNCHANGED <<organizations, hierarchy>>
    BY <1>10
  <1>11. ASSUME \/ CreateDomainTables \/ ScopeRecords \/ UnscopeRecords
                \/ RelinkRecords \/ KeepLinks \/ DropNames \/ RestoreNames
                \/ Boot \/ Stop \/ CreateDeliveryProject \/ StoreRecord
                \/ UNCHANGED deploymentVars
         PROVE  UNCHANGED <<organizations, hierarchy>>
    BY <1>11 DEF CreateDomainTables, ScopeRecords, UnscopeRecords, RelinkRecords, KeepLinks,
                 DropNames, RestoreNames, Boot, Stop, CreateDeliveryProject, StoreRecord,
                 deploymentVars
  <1> QED BY <1>1, <1>2, <1>3, <1>4, <1>5, <1>6, <1>7, <1>8, <1>9, <1>10, <1>11
          DEF DeploymentNext, Migration

-----------------------------------------------------------------------------
(* Projects. *)

\* Rows that analyses refer to stay, under their organization and name.
KeysStay ==
    \A p \in delivery :
        (\E r \in records : r.project = Key(p)) => \E q \in delivery' : Key(q) = Key(p)

\* What becomes of a row when its code or program changes.
LEMMA ChangedProject ==
    ASSUME NEW p \in AnyProject, NEW c \in Seeded \cup {""}, NEW a \in BOOLEAN
    PROVE  LET q == [p EXCEPT !.code = c, !.attached = a]
           IN  q \in AnyProject /\ Key(q) = Key(p)
  BY DEF AnyProject, Key

LEMMA ChangedAttachment ==
    ASSUME NEW p \in AnyProject, p.name \in Seeded
    PROVE  LET q == [p EXCEPT !.code = p.name, !.attached = TRUE]
           IN  q \in AnyProject /\ Key(q) = Key(p)
  BY DEF AnyProject, Key

\* The seed's rows of one organization: the names it has, and new ones.
LEMMA SeededShape ==
    ASSUME RowShape, NEW org \in Nat
    PROVE  /\ SeededRows(org) \subseteq AnyProject
           /\ \A p \in delivery : p.org = org /\ p.name \in Seeded =>
                 \E q \in SeededRows(org) : Key(q) = Key(p)
  <1> DEFINE Created(name) == [org |-> org, name |-> name, legacy |-> FALSE, code |-> name,
                             attached |-> TRUE]
             rows == {p \in delivery : p.org = org /\ p.name \in Seeded}
             Joined(p) == [p EXCEPT !.code = p.name, !.attached = TRUE]
             new(p) == IF p.attached THEN p ELSE Joined(p)
  <1>1. SeededRows(org) = {new(p) : p \in rows}
                            \cup {Created(name) : name \in Seeded \ {p.name : p \in rows}}
    BY DEF SeededRows
  <1>2. ASSUME NEW name \in Seeded PROVE Created(name) \in AnyProject
    BY NamesNotEmpty DEF AnyProject, ProjectNames
  <1>3. ASSUME NEW p \in rows PROVE new(p) \in AnyProject /\ Key(new(p)) = Key(p)
    <2>1. p \in AnyProject /\ p.name \in Seeded
      BY DEF RowShape
    <2>2. Joined(p) \in AnyProject /\ Key(Joined(p)) = Key(p)
      BY <2>1, ChangedAttachment
    <2> HIDE DEF Joined
    <2> QED BY <2>1, <2>2
  <1> HIDE DEF new, Created
  <1> QED BY <1>1, <1>2, <1>3

LEMMA DeliveryStep ==
    ASSUME revision \in AllRevisions, OrganizationShape, RowShape, [DeploymentNext]_deploymentVars
    PROVE  /\ delivery' \subseteq AnyProject
           /\ ~ CreateEnterpriseTables /\ ~ DropEnterpriseTables => KeysStay
  <1> DEFINE Shape == delivery' \subseteq AnyProject
  <1>1. ASSUME CreateEnterpriseTables PROVE Shape
    <2>1. PICK first \in [{Resolved(r.name) : r \in records} -> records] :
            delivery' = {[org |-> 1, name |-> n, legacy |-> first[n].name # "",
                          code |-> "", attached |-> FALSE] : n \in DOMAIN first}
      BY <1>1 DEF CreateEnterpriseTables
    <2>2. ASSUME NEW n \in DOMAIN first PROVE n \in ProjectNames
      BY <2>2, ResolvedIsAName DEF RowShape, AnyRecord
    <2>3. ASSUME NEW n \in ProjectNames, NEW b \in BOOLEAN
          PROVE  [org |-> 1, name |-> n, legacy |-> b, code |-> "", attached |-> FALSE] \in AnyProject
      BY DEF AnyProject
    <2>4. ASSUME NEW n \in DOMAIN first
          PROVE  [org |-> 1, name |-> n, legacy |-> first[n].name # "",
                  code |-> "", attached |-> FALSE] \in AnyProject
      <3>1. PICK b \in BOOLEAN : b = (first[n].name # "")
        OBVIOUS
      <3> QED BY <2>2, <2>3, <3>1
    <2> QED BY <2>1, <2>4
  <1>2. ASSUME DropEnterpriseTables PROVE Shape
    BY <1>2 DEF DropEnterpriseTables
  <1>3. ASSUME DropDomainTables PROVE Shape /\ KeysStay
    <2> DEFINE new(p) == [p EXCEPT !.code = "", !.attached = FALSE]
    <2>1. delivery' = {new(p) : p \in delivery}
      BY <1>3 DEF DropDomainTables
    <2>2. \A p \in delivery : new(p) \in AnyProject /\ Key(new(p)) = Key(p)
      BY ChangedProject DEF RowShape
    <2> HIDE DEF new
    <2> QED BY <2>1, <2>2 DEF KeysStay
  <1>4. ASSUME SeedDomain PROVE Shape /\ KeysStay
    <2> DEFINE seedOrgs == SeedOrganizations(organizations')
    <2>1. delivery' = {p \in delivery : p.org \notin seedOrgs \/ p.name \notin Seeded}
                        \cup UNION {SeededRows(o) : o \in seedOrgs}
      BY <1>4 DEF SeedDomain
    <2>2. seedOrgs \subseteq Nat
      BY OrganizationStep DEF OrganizationShape, SeedOrganizations, AnyOrganization
    <2> HIDE DEF seedOrgs
    <2>3. Shape
      BY <2>1, <2>2, SeededShape DEF RowShape
    <2>4. KeysStay
      BY <2>1, <2>2, SeededShape DEF KeysStay
    <2> QED BY <2>3, <2>4
  <1>5. ASSUME UnseedDomain PROVE Shape /\ KeysStay
    <2> DEFINE new(p, found) == IF p \in found THEN [p EXCEPT !.code = "", !.attached = FALSE] ELSE p
               deleted(found) == {p \in found : ~p.legacy}
    <2>1. PICK found \in SUBSET delivery :
            /\ \A p \in deleted(found) : \A r \in records : r.project # Key(p)
            /\ delivery' = {new(p, found) : p \in delivery \ deleted(found)}
      BY <1>5 DEF UnseedDomain
    <2>2. \A p \in delivery : new(p, found) \in AnyProject /\ Key(new(p, found)) = Key(p)
      BY ChangedProject DEF RowShape
    <2> HIDE DEF new, deleted
    <2> QED BY <2>1, <2>2 DEF KeysStay
  <1>6. ASSUME CreateDeliveryProject PROVE Shape /\ KeysStay
    <2>1. PICK org \in hierarchy, name \in ProjectKeys, code \in Seeded \cup {""} :
            delivery' = delivery \cup
              {[org |-> org, name |-> name, legacy |-> FALSE, code |-> code, attached |-> TRUE]}
      BY <1>6 DEF CreateDeliveryProject
    <2>2. [org |-> org, name |-> name, legacy |-> FALSE, code |-> code, attached |-> TRUE]
            \in AnyProject
      BY DEF AnyProject, ProjectNames, OrganizationShape
    <2> QED BY <2>1, <2>2 DEF RowShape, KeysStay
  <1>7. ASSUME StoreRecord PROVE Shape /\ KeysStay
    <2>1. PICK o \in organizations, text \in FreeTexts :
            \/ delivery' = delivery
            \/ delivery' = delivery \cup
                 {[org |-> o.id, name |-> Resolved(text), legacy |-> text # "", code |-> "",
                   attached |-> FALSE]}
      BY <1>7 DEF StoreRecord
    <2>2. PICK b \in BOOLEAN : b = (text # "")
      OBVIOUS
    <2>3. Resolved(text) \in ProjectNames /\ o.id \in Nat
      BY TextsAssumption, ResolvedIsAName DEF StoredTexts, OrganizationShape, AnyOrganization
    <2>4. [org |-> o.id, name |-> Resolved(text), legacy |-> b, code |-> "", attached |-> FALSE]
            \in AnyProject
      BY <2>3 DEF AnyProject
    <2> QED BY <2>1, <2>2, <2>4 DEF RowShape, KeysStay
  <1>8. CASE delivery' = delivery
    BY <1>8 DEF RowShape, KeysStay
  <1>9. ASSUME \/ BackfillSlugs \/ DropSlugs \/ CreateDomainTables
               \/ ScopeRecords \/ UnscopeRecords
               \/ RelinkRecords \/ KeepLinks \/ DropNames \/ RestoreNames
               \/ Boot \/ BootstrapAdministrator \/ BootstrapDemoUser \/ BootstrapOrganization
               \/ Stop \/ RenameOrganization \/ UNCHANGED deploymentVars
        PROVE  delivery' = delivery
    BY <1>9 DEF BackfillSlugs, DropSlugs, CreateDomainTables, ScopeRecords, UnscopeRecords,
                RelinkRecords, KeepLinks, DropNames, RestoreNames, Boot, BootstrapAdministrator,
                BootstrapDemoUser, BootstrapOrganization, BootStep, Stop, RenameOrganization,
                deploymentVars
  <1> QED BY <1>1, <1>2, <1>3, <1>4, <1>5, <1>6, <1>7, <1>8, <1>9 DEF DeploymentNext, Migration

-----------------------------------------------------------------------------
(* Analyses. *)

\* An analysis after a step is in order.
InOrder(s) ==
    /\ s \in AnyRecord
    /\ s.project = NoProject <=> revision' = 1
    /\ revision' # NewestRevision /\ s.project # NoProject => Resolved(s.name) = s.project[2]
    /\ s.project # NoProject => \E q \in delivery' : Key(q) = s.project

\* It is the same analysis, where a reader found it before.
SamePlace(r, s) ==
    /\ s.id = r.id
    /\ ShownName(s) = ShownName(r)
    /\ revision > 1 /\ revision' > 1 => Owner(s) = Owner(r)

Kept == \A r \in records : \E s \in records' : SamePlace(r, s)

\* A record whose project, and the text if it still counts, stay.
LEMMA UnchangedPlace ==
    ASSUME DeploymentInv, NEW r \in records, NEW s \in AnyRecord,
           revision' = 1 <=> revision = 1,
           s.id = r.id, s.project = r.project,
           revision = 1 => s.name = r.name,
           revision' # NewestRevision /\ s.project # NoProject => Resolved(s.name) = s.project[2],
           KeysStay
    PROVE  InOrder(s) /\ SamePlace(r, s)
  <1>1. s.project = NoProject <=> revision' = 1
    BY DEF DeploymentInv, HasProjects
  <1>2. s.project # NoProject => \E q \in delivery' : Key(q) = s.project
    BY DEF DeploymentInv, Referenced, KeysStay
  <1>3. SamePlace(r, s)
    BY DEF SamePlace, ShownName, Owner, DeploymentInv, HasProjects
  <1> QED BY <1>1, <1>2, <1>3 DEF InOrder

\* A project's key has its name.
LEMMA KeyHasTheName ==
    ASSUME NEW p \in AnyProject
    PROVE  p.name \in ProjectNames /\ p.name = Key(p)[2]
  BY DEF AnyProject, Key

RecordsGoal == (\A s \in records' : InOrder(s)) /\ Kept

LEMMA MappedRecords ==
    ASSUME NEW f, records' = {f[r] : r \in records},
           \A r \in records : InOrder(f[r]) /\ SamePlace(r, f[r])
    PROVE  RecordsGoal
  BY DEF RecordsGoal, Kept

\* The revisions of the two migrations that make and drop the projects.
LEMMA EnterpriseRevisions ==
    /\ CreateEnterpriseTables => revision = 1 /\ revision' = 2
    /\ DropEnterpriseTables => revision = 2 /\ revision' = 1
  <1>1. CreateEnterpriseTables => Migrate(1, 2)
    BY DEF CreateEnterpriseTables
  <1>2. DropEnterpriseTables => Migrate(2, 1)
    BY DEF DropEnterpriseTables
  <1> QED BY <1>1, <1>2 DEF Migrate

\* Those of the ones that leave the analyses alone.
LEMMA OtherRevisions ==
    ASSUME \/ BackfillSlugs \/ DropSlugs \/ CreateDomainTables \/ DropDomainTables
           \/ SeedDomain \/ UnseedDomain \/ KeepLinks
    PROVE  revision \in 2..14 /\ revision' \in 2..14 /\ records' = records
  <1>1. /\ BackfillSlugs => Migrate(2, 4)
        /\ DropSlugs => Migrate(4, 2)
        /\ CreateDomainTables => Migrate(4, 5)
        /\ DropDomainTables => Migrate(5, 4)
        /\ KeepLinks => Migrate(14, 10)
    BY DEF BackfillSlugs, DropSlugs, CreateDomainTables, DropDomainTables, KeepLinks
  <1>2. SeedDomain => Migrate(5, 8)
    BY DEF SeedDomain
  <1>3. UnseedDomain => Migrate(8, 5)
    BY DEF UnseedDomain
  <1>4. records' = records
    BY DEF BackfillSlugs, DropSlugs, CreateDomainTables, DropDomainTables, SeedDomain,
           UnseedDomain, KeepLinks
  <1> QED BY <1>1, <1>2, <1>3, <1>4 DEF Migrate

LEMMA RecordStep ==
    ASSUME DeploymentInv, [DeploymentNext]_deploymentVars
    PROVE  RecordsGoal
  <1> USE DEF NewestRevision
  <1>1. /\ records \subseteq AnyRecord /\ delivery \subseteq AnyProject
        /\ OrganizationShape /\ RowShape /\ revision \in AllRevisions
    BY DEF DeploymentInv, RowShape
  <1>2. ~ CreateEnterpriseTables /\ ~ DropEnterpriseTables => KeysStay
    BY <1>1, DeliveryStep
  <1>3. \A r \in records : r.project \in (Nat \X ProjectNames) \cup {NoProject} /\ r.name \in StoredTexts
    BY <1>1 DEF AnyRecord
  <1>4. \A r \in records : revision # 15 /\ r.project # NoProject => Resolved(r.name) = r.project[2]
    BY DEF DeploymentInv, TextsAgree
  \* 0002 reads every text as a project's name.
  <1>5. ASSUME CreateEnterpriseTables PROVE RecordsGoal
    <2> DEFINE f == [r \in records |-> [r EXCEPT !.project = <<1, Resolved(r.name)>>]]
    <2>1. records' = {f[r] : r \in records} /\ revision = 1 /\ revision' = 2
      BY <1>5 DEF CreateEnterpriseTables, Migrate
    <2>2. ASSUME NEW r \in records PROVE InOrder(f[r]) /\ SamePlace(r, f[r])
      <3>1. Resolved(r.name) \in ProjectNames
        BY <1>3, ResolvedIsAName
      <3>2. <<1, Resolved(r.name)>> # NoProject
        BY <3>1, NoProjectHasNoName
      <3>3. /\ f[r] \in AnyRecord /\ f[r].id = r.id /\ f[r].name = r.name
            /\ f[r].project = <<1, Resolved(r.name)>>
        BY <1>1, <3>1 DEF AnyRecord
      <3>4. \E q \in delivery' : Key(q) = <<1, Resolved(r.name)>>
        <4>1. PICK first \in [{Resolved(u.name) : u \in records} -> records] :
                delivery' = {[org |-> 1, name |-> n, legacy |-> first[n].name # "",
                              code |-> "", attached |-> FALSE] : n \in DOMAIN first}
          BY <1>5 DEF CreateEnterpriseTables
        <4>2. PICK b : b = (first[Resolved(r.name)].name # "")
          OBVIOUS
        <4>3. [org |-> 1, name |-> Resolved(r.name), legacy |-> b,
               code |-> "", attached |-> FALSE] \in delivery'
          BY <4>1, <4>2
        <4> QED BY <4>3 DEF Key
      <3>5. r.project = NoProject
        BY <2>1 DEF DeploymentInv, HasProjects
      <3> HIDE DEF f
      <3>6. InOrder(f[r])
        BY <2>1, <3>2, <3>3, <3>4 DEF InOrder
      <3>7. SamePlace(r, f[r])
        BY <2>1, <3>2, <3>3, <3>5 DEF SamePlace, ShownName
      <3> QED BY <3>6, <3>7
    <2> HIDE DEF f
    <2> QED BY <2>1, <2>2, MappedRecords
  \* Its downgrade leaves the text, which says the same.
  <1>6. ASSUME DropEnterpriseTables PROVE RecordsGoal
    <2> DEFINE f == [r \in records |-> [r EXCEPT !.project = NoProject]]
    <2>1. records' = {f[r] : r \in records} /\ revision = 2 /\ revision' = 1
      BY <1>6 DEF DropEnterpriseTables, Migrate
    <2>2. ASSUME NEW r \in records PROVE InOrder(f[r]) /\ SamePlace(r, f[r])
      <3>1. /\ f[r] \in AnyRecord /\ f[r].id = r.id /\ f[r].name = r.name
            /\ f[r].project = NoProject
        BY <1>1 DEF AnyRecord
      <3> HIDE DEF f
      <3>2. InOrder(f[r])
        BY <2>1, <3>1 DEF InOrder
      <3>3. SamePlace(r, f[r])
        BY <1>4, <2>1, <3>1 DEF SamePlace, ShownName
      <3> QED BY <3>2, <3>3
    <2> HIDE DEF f
    <2> QED BY <2>1, <2>2, MappedRecords
  <1>7. ASSUME KeysStay, records' = records, revision' = 1 <=> revision = 1,
               revision = 15 => revision' = 15
        PROVE  RecordsGoal
    <2>1. ASSUME NEW r \in records PROVE InOrder(r) /\ SamePlace(r, r)
      BY <1>1, <1>4, <1>7, UnchangedPlace
    <2> QED BY <1>7, <2>1 DEF RecordsGoal, Kept
  \* 0010 and its downgrade change the organization column.
  <1>8. ASSUME ScopeRecords \/ UnscopeRecords PROVE RecordsGoal
    <2>1. KeysStay
      BY <1>2, <1>8, EnterpriseRevisions DEF ScopeRecords, UnscopeRecords, Migrate
    <2> DEFINE org(r) == IF ScopeRecords THEN r.project[1] ELSE NoOrganization
               f == [r \in records |-> [r EXCEPT !.org = org(r)]]
    <2>2. /\ revision \in {8, 10} /\ revision' \in {8, 10}
          /\ ScopeRecords => \A r \in records : r.project # NoProject
      BY <1>8 DEF ScopeRecords, UnscopeRecords, Migrate
    <2>3. records' = {f[r] : r \in records}
      BY <1>8, <2>2 DEF ScopeRecords, UnscopeRecords, Migrate
    <2>4. ASSUME NEW r \in records PROVE InOrder(f[r]) /\ SamePlace(r, f[r])
      <3>1. org(r) \in Nat
        BY <1>3, <2>2 DEF NoOrganization
      <3> HIDE DEF org
      <3>2. /\ f[r] \in AnyRecord /\ f[r].id = r.id /\ f[r].name = r.name
            /\ f[r].project = r.project
        BY <1>1, <3>1 DEF AnyRecord
      <3> HIDE DEF f
      <3> QED BY <1>4, <2>1, <2>2, <3>2, UnchangedPlace
    <2> HIDE DEF f
    <2> QED BY <2>3, <2>4, MappedRecords
  \* 0014 finds every analysis linked.
  <1>9. ASSUME RelinkRecords PROVE RecordsGoal
    <2>1. revision = 10 /\ revision' = 14 /\ records' = {Relinked(r) : r \in records}
      BY <1>9 DEF RelinkRecords, Migrate
    <2>2. \A r \in records : Relinked(r) = r
      BY <2>1 DEF Relinked, DeploymentInv, HasProjects
    <2>3. records' = records
      BY <2>1, <2>2
    <2>4. KeysStay
      BY <1>2, <2>1, EnterpriseRevisions
    <2> QED BY <1>7, <2>1, <2>3, <2>4
  \* 0015 forgets the texts.
  <1>10. ASSUME DropNames PROVE RecordsGoal
    <2> DEFINE f == [r \in records |-> [r EXCEPT !.name = NullName]]
    <2>1. /\ records' = {f[r] : r \in records} /\ revision = 14 /\ revision' = 15
      BY <1>10 DEF DropNames, Migrate
    <2>2. KeysStay
      BY <1>2, <2>1, EnterpriseRevisions
    <2>3. ASSUME NEW r \in records PROVE InOrder(f[r]) /\ SamePlace(r, f[r])
      <3>0. NullName \in StoredTexts
        BY DEF NullName, StoredTexts
      <3>1. f[r] \in AnyRecord /\ f[r].id = r.id /\ f[r].project = r.project
        BY <1>1, <3>0 DEF AnyRecord
      <3> HIDE DEF f
      <3> QED BY <2>1, <2>2, <3>1, UnchangedPlace
    <2> HIDE DEF f
    <2> QED BY <2>1, <2>3, MappedRecords
  \* Its downgrade takes the name of the project the reference leads to.
  <1>11. ASSUME RestoreNames PROVE RecordsGoal
    <2> DEFINE f == [r \in records |-> [r EXCEPT !.name = RestoredName(r)]]
    <2>1. records' = {f[r] : r \in records} /\ revision = 15 /\ revision' = 14
      BY <1>11 DEF RestoreNames, Migrate
    <2>2. KeysStay
      BY <1>2, <2>1, EnterpriseRevisions
    <2>3. ASSUME NEW r \in records PROVE InOrder(f[r]) /\ SamePlace(r, f[r])
      <3>1. r.project # NoProject
        BY <2>1 DEF DeploymentInv, HasProjects
      <3>2. ProjectOf(r) \in delivery /\ Key(ProjectOf(r)) = r.project
        BY <3>1 DEF DeploymentInv, Referenced, ProjectOf
      <3>3. ProjectOf(r).name \in ProjectNames /\ ProjectOf(r).name = r.project[2]
        BY <1>1, <3>2, KeyHasTheName
      <3>4. RestoredName(r) \in StoredTexts /\ RestoredName(r) = r.project[2] /\ r.project[2] # ""
        BY <3>3, NamesNotEmpty DEF RestoredName, StoredTexts, ProjectNames
      <3>5. /\ f[r] \in AnyRecord /\ f[r].id = r.id /\ f[r].project = r.project
            /\ f[r].name = RestoredName(r)
        BY <1>1, <3>4 DEF AnyRecord
      <3>6. Resolved(f[r].name) = r.project[2]
        BY <3>4, <3>5 DEF Resolved
      <3> HIDE DEF f
      <3> QED BY <2>1, <2>2, <3>5, <3>6, UnchangedPlace
    <2> HIDE DEF f
    <2> QED BY <2>1, <2>3, MappedRecords
  <1>12. ASSUME StoreRecord PROVE RecordsGoal
    <2>1. revision = 15 /\ revision' = 15
      BY <1>12 DEF StoreRecord, Started
    <2>2. KeysStay
      BY <1>2, <2>1, EnterpriseRevisions
    <2>3. PICK i \in Records, o \in organizations, text \in FreeTexts :
            /\ records' = records \cup {[id |-> i, name |-> NullName,
                                         project |-> <<o.id, Resolved(text)>>, org |-> o.id]}
            /\ delivery' = IF \E p \in delivery : Key(p) = <<o.id, Resolved(text)>> THEN delivery
                           ELSE delivery \cup {[org |-> o.id, name |-> Resolved(text),
                                                legacy |-> text # "", code |-> "",
                                                attached |-> FALSE]}
      BY <1>12 DEF StoreRecord
    <2> DEFINE project == <<o.id, Resolved(text)>>
               new == [id |-> i, name |-> NullName, project |-> project, org |-> o.id]
    <2>4. Resolved(text) \in ProjectNames /\ o.id \in Nat /\ NullName \in StoredTexts
      BY <1>1, TextsAssumption, ResolvedIsAName DEF StoredTexts, OrganizationShape, AnyOrganization, NullName
    <2>5. project # NoProject
      BY <2>4, NoProjectHasNoName
    <2>6. \E q \in delivery' : Key(q) = project
      <3>1. PICK b : b = (text # "")
        OBVIOUS
      <3>2. CASE \E p \in delivery : Key(p) = project
        BY <2>3, <3>2
      <3>3. CASE ~ \E p \in delivery : Key(p) = project
        <4>1. [org |-> o.id, name |-> Resolved(text), legacy |-> b, code |-> "",
               attached |-> FALSE] \in delivery'
          BY <2>3, <3>1, <3>3
        <4> QED BY <4>1 DEF Key
      <3> QED BY <3>2, <3>3
    <2>7. InOrder(new)
      <3>1. new \in AnyRecord
        BY <2>4 DEF AnyRecord
      <3>2. new.project = project
        OBVIOUS
      <3> HIDE DEF new, project
      <3> QED BY <2>1, <2>5, <2>6, <3>1, <3>2 DEF InOrder
    <2>8. ASSUME NEW r \in records PROVE InOrder(r) /\ SamePlace(r, r)
      BY <1>1, <2>1, <2>2, UnchangedPlace
    <2> HIDE DEF new
    <2>9. records' = records \cup {new}
      BY <2>3 DEF new
    <2> QED BY <2>7, <2>8, <2>9 DEF RecordsGoal, Kept
  <1>13. ASSUME \/ BackfillSlugs \/ DropSlugs \/ CreateDomainTables \/ DropDomainTables
                \/ SeedDomain \/ UnseedDomain \/ KeepLinks
         PROVE  RecordsGoal
    <2>1. revision \in 2..14 /\ revision' \in 2..14 /\ records' = records
      BY <1>13, OtherRevisions
    <2>2. KeysStay
      BY <1>2, <2>1, EnterpriseRevisions
    <2> QED BY <1>7, <2>1, <2>2
  <1>14. ASSUME \/ Boot \/ BootstrapAdministrator \/ BootstrapDemoUser \/ BootstrapOrganization
                \/ Stop \/ RenameOrganization \/ CreateDeliveryProject
                \/ UNCHANGED deploymentVars
         PROVE  RecordsGoal
    <2>1. records' = records /\ revision' = revision
      BY <1>14 DEF Boot, BootstrapAdministrator, BootstrapDemoUser, BootstrapOrganization, BootStep,
                   Stop, RenameOrganization, CreateDeliveryProject, deploymentVars
    <2>2. KeysStay
      BY <1>2, <2>1, EnterpriseRevisions
    <2> QED BY <1>7, <2>1, <2>2
  <1> QED BY <1>5, <1>6, <1>8, <1>9, <1>10, <1>11, <1>12, <1>13, <1>14
          DEF DeploymentNext, Migration

-----------------------------------------------------------------------------
(* Where analyses are filed. *)

LEMMA RevisionStep ==
    ASSUME revision \in AllRevisions, [DeploymentNext]_deploymentVars
    PROVE  revision' \in AllRevisions
  <1>1. ASSUME NEW from, NEW to \in AllRevisions, Migrate(from, to) PROVE revision' \in AllRevisions
    BY <1>1 DEF Migrate
  <1>2. ASSUME Migration PROVE \E from, to \in AllRevisions : Migrate(from, to)
    <2>1. CASE CreateEnterpriseTables \/ DropEnterpriseTables \/ BackfillSlugs \/ DropSlugs
      BY <2>1 DEF CreateEnterpriseTables, DropEnterpriseTables, BackfillSlugs, DropSlugs, AllRevisions
    <2>2. CASE CreateDomainTables \/ DropDomainTables \/ ScopeRecords \/ UnscopeRecords
      BY <2>2 DEF CreateDomainTables, DropDomainTables, ScopeRecords, UnscopeRecords, AllRevisions
    <2>3. CASE SeedDomain
      BY <2>3 DEF SeedDomain, AllRevisions
    <2>4. CASE UnseedDomain
      BY <2>4 DEF UnseedDomain, AllRevisions
    <2>5. CASE RelinkRecords \/ KeepLinks \/ DropNames \/ RestoreNames
      BY <2>5 DEF RelinkRecords, KeepLinks, DropNames, RestoreNames, AllRevisions, NewestRevision
    <2> QED BY <1>2, <2>1, <2>2, <2>3, <2>4, <2>5 DEF Migration
  <1>3. CASE Migration
    BY <1>1, <1>2, <1>3
  <1>4. CASE revision' = revision
    BY <1>4
  <1>5. ASSUME \/ Boot \/ BootstrapAdministrator \/ BootstrapDemoUser \/ BootstrapOrganization
               \/ Stop \/ RenameOrganization \/ CreateDeliveryProject \/ StoreRecord
               \/ UNCHANGED deploymentVars
        PROVE  revision' = revision
    BY <1>5 DEF Boot, BootstrapAdministrator, BootstrapDemoUser, BootstrapOrganization, BootStep,
                Stop, RenameOrganization, CreateDeliveryProject, StoreRecord, deploymentVars
  <1> QED BY <1>3, <1>4, <1>5 DEF DeploymentNext

LEMMA DeploymentStepInv == DeploymentInv /\ [DeploymentNext]_deploymentVars => DeploymentInv'
  <1> SUFFICES ASSUME DeploymentInv, [DeploymentNext]_deploymentVars PROVE DeploymentInv'
    OBVIOUS
  <1>1. revision' \in AllRevisions
    BY RevisionStep DEF DeploymentInv
  <1>2. OrganizationShape'
    BY OrganizationStep DEF DeploymentInv
  <1>3. delivery' \subseteq AnyProject
    BY DeliveryStep DEF DeploymentInv
  <1>4. \A s \in records' : InOrder(s)
    BY RecordStep DEF RecordsGoal
  <1>5. RowShape'
    BY <1>3, <1>4 DEF RowShape, InOrder
  <1>6. HasProjects' /\ Referenced' /\ TextsAgree'
    BY <1>4 DEF HasProjects, Referenced, TextsAgree, InOrder
  <1> QED BY <1>1, <1>2, <1>5, <1>6 DEF DeploymentInv

LEMMA DeploymentInvariant == DeploymentSpec => []DeploymentInv
  BY DeploymentInitInv, DeploymentStepInv, PTL DEF DeploymentSpec

\* A reference to a project always leads to a row, and as long as the texts
\* are stored they say the same: no migration leaves an analysis dangling.
THEOREM ReferencesLead == DeploymentSpec => [](Referenced /\ TextsAgree)
  BY DeploymentInvariant, PTL DEF DeploymentInv

\* No sequence of upgrades, downgrades, boots and user actions loses an
\* analysis or has it found under another project's name; and none of their
\* steps between two revisions from 0002 on moves it to another organization.
\* A sequence that goes back to 0001 does: 0002 then files all under the
\* default organization.
THEOREM AnalysesStay == DeploymentSpec => AnalysesKeepTheirProject
  <1>1. DeploymentInv /\ [DeploymentNext]_deploymentVars =>
          [\A r \in records : \E s \in records' :
             /\ s.id = r.id
             /\ ShownName(s) = ShownName(r)
             /\ (revision > 1 /\ revision' > 1) => Owner(s) = Owner(r)]_deploymentVars
    BY RecordStep DEF RecordsGoal, Kept, SamePlace
  <1> QED BY <1>1, DeploymentInvariant, PTL DEF DeploymentSpec, AnalysesKeepTheirProject

-----------------------------------------------------------------------------
(* The rows of an installation, with the numbers they really have. *)

IdsOf(rows) == {o.id : o \in rows}

\* Organizations are numbered in the order they came, under labels of their own.
NumberedRows(rows) ==
    /\ rows \subseteq AnyOrganization
    /\ IsFiniteSet(rows)
    /\ \A a, b \in rows : a.id = b.id \/ a.label = b.label => a = b
    /\ IdsOf(rows) = 1 .. Cardinality(rows)
    /\ \A o \in rows : o.slug \in Slugs \cup {NoSlug}

\* Nothing refers to an organization that is not there.
PlacesInv ==
    /\ NumberedRows(organizations)
    /\ hierarchy \subseteq IdsOf(organizations)
    /\ revision < 5 => hierarchy = {}
    /\ accounts \subseteq IdsOf(organizations) \X Emails
    /\ revision = 1 => accounts = {}
    /\ \A p \in delivery : p.org \in IdsOf(organizations)
    /\ \A r \in records : r.org \in {NoOrganization} \cup OrganizationIds
    /\ server \in ServerStates

\* There are no more of them than labels.
LEMMA LabelsCount == IsFiniteSet(Labels) /\ Cardinality(Labels) \in Nat /\ Cardinality(Labels) > 0
  <1>1. IsFiniteSet(Labels) /\ Labels # {}
    BY LabelsAssumption
  <1> QED BY <1>1, FS_CardinalityType, FS_EmptySet

LEMMA RowsCount ==
  ASSUME NEW rows, NumberedRows(rows)
  PROVE  /\ Cardinality(rows) \in Nat
         /\ Cardinality(rows) <= Cardinality(Labels)
         /\ IdsOf(rows) \subseteq OrganizationIds
         /\ \A l \in Labels : (\A o \in rows : o.label # l) => Cardinality(rows) < Cardinality(Labels)
  <1> DEFINE f == [o \in rows |-> o.label]
  <1>1. Cardinality(rows) \in Nat
    BY FS_CardinalityType DEF NumberedRows
  <1>2. ASSUME NEW S \in SUBSET Labels, \A o \in rows : o.label \in S
        PROVE  Cardinality(rows) <= Cardinality(S)
    <2>1. f \in Injection(rows, S)
      BY <1>2 DEF Injection, IsInjective, NumberedRows
    <2>2. IsFiniteSet(S)
      BY LabelsCount, FS_Subset
    <2> QED BY <2>1, <2>2, FS_Injection
  <1>3. \A o \in rows : o.label \in Labels
    BY DEF NumberedRows, AnyOrganization
  <1>4. Cardinality(rows) <= Cardinality(Labels)
    BY <1>2, <1>3
  <1>5. ASSUME NEW l \in Labels, \A o \in rows : o.label # l
        PROVE  Cardinality(rows) < Cardinality(Labels)
    <2>1. \A o \in rows : o.label \in Labels \ {l}
      BY <1>3, <1>5
    <2>2. Cardinality(rows) <= Cardinality(Labels \ {l})
      BY <1>2, <2>1
    <2>3. Cardinality(Labels \ {l}) = Cardinality(Labels) - 1
      BY LabelsCount, FS_RemoveElement
    <2> QED BY <1>1, <2>2, <2>3, LabelsCount
  <1>6. IdsOf(rows) \subseteq OrganizationIds
    BY <1>1, <1>4, LabelsCount DEF NumberedRows, OrganizationIds
  <1> QED BY <1>1, <1>4, <1>5, <1>6

\* A new row gets the next number.
LEMMA RowInserted ==
  ASSUME NEW rows, NumberedRows(rows), NEW l \in Labels, \A o \in rows : o.label # l,
         NEW slug \in Slugs \cup {NoSlug}
  PROVE  LET new == [id |-> 1 + Cardinality(rows), label |-> l, slug |-> slug]
         IN  /\ NumberedRows(rows \cup {new})
             /\ Cardinality(rows \cup {new}) = 1 + Cardinality(rows)
             /\ IdsOf(rows \cup {new}) = IdsOf(rows) \cup {1 + Cardinality(rows)}
  <1> DEFINE n == 1 + Cardinality(rows)
  <1> DEFINE new == [id |-> n, label |-> l, slug |-> slug]
  <1>1. Cardinality(rows) \in Nat /\ IdsOf(rows) = 1 .. Cardinality(rows)
    BY RowsCount DEF NumberedRows
  <1>2. \A o \in rows : o.id # n /\ o.label # l
    BY <1>1 DEF IdsOf
  <1>3. slug \in AnySlug
    BY LabelsCount DEF Slugs, AnySlug, OrganizationIds
  <1>4. new \in AnyOrganization /\ new.id = n /\ new.label = l /\ new.slug = slug
    BY <1>1, <1>3 DEF AnyOrganization
  <1> HIDE DEF new
  <1>5. new \notin rows
    BY <1>2, <1>4
  <1>6. IsFiniteSet(rows \cup {new}) /\ Cardinality(rows \cup {new}) = n
    BY <1>1, <1>5, FS_AddElement DEF NumberedRows
  <1>7. IdsOf(rows \cup {new}) = IdsOf(rows) \cup {n}
    BY <1>4 DEF IdsOf
  <1>8. (1 .. Cardinality(rows)) \cup {n} = 1 .. n
    BY <1>1
  <1>9. \A a, b \in rows \cup {new} : a.id = b.id \/ a.label = b.label => a = b
    BY <1>2, <1>4 DEF NumberedRows
  <1>10. NumberedRows(rows \cup {new})
    BY <1>1, <1>4, <1>6, <1>7, <1>8, <1>9 DEF NumberedRows
  <1> QED BY <1>6, <1>7, <1>10 DEF new

\* Rows that are rewritten keep their numbers.
LEMMA RowsRewritten ==
  ASSUME NEW rows, NumberedRows(rows), NEW f, f = [o \in rows |-> f[o]],
         \A o \in rows : /\ f[o] \in AnyOrganization /\ f[o].id = o.id
                         /\ f[o].slug \in Slugs \cup {NoSlug},
         \A a, b \in rows : f[a].label = f[b].label => a = b
  PROVE  /\ NumberedRows({f[o] : o \in rows})
         /\ IdsOf({f[o] : o \in rows}) = IdsOf(rows)
  <1> DEFINE new == {f[o] : o \in rows}
  <1>1. \A a, b \in rows : f[a].id = f[b].id => a = b
    BY DEF NumberedRows
  <1>2. f \in Surjection(rows, new) /\ f \in Injection(rows, new)
    BY <1>1 DEF Surjection, Injection, IsInjective
  <1>3. IsFiniteSet(new) /\ Cardinality(new) = Cardinality(rows)
    BY <1>2, FS_Surjection DEF NumberedRows
  <1>4. IdsOf(new) = IdsOf(rows)
    BY DEF IdsOf
  <1>5. \A a, b \in new : a.id = b.id \/ a.label = b.label => a = b
    BY <1>1
  <1>6. new \subseteq AnyOrganization /\ \A o \in new : o.slug \in Slugs \cup {NoSlug}
    OBVIOUS
  <1> HIDE DEF new
  <1> QED BY <1>3, <1>4, <1>5, <1>6 DEF NumberedRows, new

\* Its organizations are kept, by everything but the first migration and back.
IdsStay == IdsOf(organizations) \subseteq IdsOf(organizations')

OrganizationsGoal == NumberedRows(organizations') /\ IdsStay

\* No row, and the row of the first migration.
LEMMA FirstRows ==
    /\ NumberedRows({})
    /\ NumberedRows({[id |-> 1, label |-> Default, slug |-> NoSlug]})
    /\ IdsOf({[id |-> 1, label |-> Default, slug |-> NoSlug]}) = {1}
  <1>1. NumberedRows({})
    <2>1. IdsOf({}) = {} /\ 1 .. 0 = {}
      BY DEF IdsOf
    <2> QED BY <2>1, FS_EmptySet DEF NumberedRows
  <1> DEFINE first == [id |-> 1 + Cardinality({}), label |-> Default, slug |-> NoSlug]
  <1>2. /\ NumberedRows({} \cup {first})
        /\ IdsOf({} \cup {first}) = IdsOf({}) \cup {1 + Cardinality({})}
    BY <1>1, LabelsKnown, RowInserted
  <1>3. 1 + Cardinality({}) = 1
    BY FS_EmptySet
  <1>4. first = [id |-> 1, label |-> Default, slug |-> NoSlug]
    BY <1>3
  <1>5. {} \cup {first} = {first}
    OBVIOUS
  <1>6. IdsOf({}) = {}
    BY DEF IdsOf
  <1> QED BY <1>1, <1>2, <1>3, <1>4, <1>5, <1>6

LEMMA SlugsNumbered ==
  ASSUME NEW l \in Labels, NEW n \in OrganizationIds
  PROVE  <<SlugOf[l], n>> \in Slugs
  BY DEF Slugs

LEMMA FirstSuffix == 1 \in OrganizationIds
  BY LabelsCount DEF OrganizationIds

LEMMA InsertedUnder ==
  ASSUME NEW rows, NumberedRows(rows), NEW l \in Labels, \A o \in rows : o.label # l
  PROVE  LET new == [id |-> 1 + Cardinality(rows), label |-> l, slug |-> <<SlugOf[l], 1>>]
         IN  /\ NumberedRows(rows \cup {new})
             /\ Cardinality(rows \cup {new}) = 1 + Cardinality(rows)
             /\ IdsOf(rows \cup {new}) = IdsOf(rows) \cup {1 + Cardinality(rows)}
  <1>1. <<SlugOf[l], 1>> \in Slugs \cup {NoSlug}
    BY SlugsNumbered, FirstSuffix
  <1> QED BY <1>1, RowInserted

\* A start that asks for an organization.
LEMMA OrganizationProvided ==
  ASSUME NumberedRows(organizations), NEW l \in Labels, NEW email \in Emails,
         accounts \subseteq IdsOf(organizations) \X Emails,
         Provide(l, email)
  PROVE  OrganizationsGoal /\ accounts' \subseteq IdsOf(organizations') \X Emails
  <1>1. CASE Named(l) # {}
    <2>1. organizations' = organizations /\ accounts' = accounts \cup {<<IdOf(l), email>>}
      BY <1>1 DEF Provide
    <2>2. IdOf(l) \in IdsOf(organizations)
      <3>1. (CHOOSE o \in Named(l) : TRUE) \in Named(l)
        BY <1>1
      <3> QED BY <3>1 DEF IdOf, IdsOf, Named
    <2> QED BY <2>1, <2>2 DEF OrganizationsGoal, IdsStay
  <1>2. CASE Named(l) = {}
    <2> DEFINE new == [id |-> NextOrganization, label |-> l, slug |-> <<SlugOf[l], 1>>]
    <2>1. /\ organizations' = organizations \cup {new}
          /\ accounts' = accounts \cup {<<NextOrganization, email>>}
      BY <1>2 DEF Provide, With
    <2>2. \A o \in organizations : o.label # l
      BY <1>2 DEF Named
    <2>3. /\ NumberedRows(organizations \cup {new})
          /\ IdsOf(organizations \cup {new}) = IdsOf(organizations) \cup {NextOrganization}
      BY <2>2, InsertedUnder DEF NextOrganization
    <2> HIDE DEF new
    <2> QED BY <2>1, <2>3 DEF OrganizationsGoal, IdsStay
  <1> QED BY <1>1, <1>2

\* The two organizations of the seed, those that are not there yet.
LEMMA OrganizationsSeeded ==
  ASSUME NumberedRows(organizations), SeedDomain
  PROVE  OrganizationsGoal
  <1> DEFINE missing == {l \in {Default, Demo} : Named(l) = {}}
             Position(l) == IF l = Demo /\ Default \in missing THEN 1 ELSE 0
             row(l) == [id |-> NextOrganization + Position(l), label |-> l,
                        slug |-> <<SlugOf[l], 1>>]
             n == Cardinality(organizations)
  <1>1. organizations' = organizations \cup {row(l) : l \in missing}
    BY DEF SeedDomain
  <1>2. n \in Nat /\ NextOrganization = 1 + n
    BY RowsCount DEF NextOrganization
  <1>3. \A l : Named(l) = {} => \A o \in organizations : o.label # l
    BY DEF Named
  <1>4. CASE missing = {}
    BY <1>1, <1>4 DEF OrganizationsGoal, IdsStay
  <1>5. ASSUME NEW l \in Labels, missing = {l}, ~ (l = Demo /\ Default \in missing)
        PROVE  OrganizationsGoal
    <2>1. NextOrganization + Position(l) = 1 + n
      BY <1>2, <1>5
    <2>2. row(l) = [id |-> 1 + n, label |-> l, slug |-> <<SlugOf[l], 1>>]
      BY <2>1
    <2>3. \A o \in organizations : o.label # l
      BY <1>3, <1>5
    <2>4. /\ NumberedRows(organizations \cup {row(l)})
          /\ IdsOf(organizations \cup {row(l)}) = IdsOf(organizations) \cup {1 + n}
      BY <2>2, <2>3, InsertedUnder
    <2> HIDE DEF row
    <2>5. organizations' = organizations \cup {row(l)}
      BY <1>1, <1>5
    <2> QED BY <2>4, <2>5 DEF OrganizationsGoal, IdsStay
  <1>6. CASE missing = {Default, Demo}
    <2> DEFINE first == [id |-> 1 + n, label |-> Default, slug |-> <<SlugOf[Default], 1>>]
               rows == organizations \cup {first}
               second == [id |-> 1 + Cardinality(rows), label |-> Demo,
                          slug |-> <<SlugOf[Demo], 1>>]
    <2>1. Default # Demo
      BY LabelsAssumption
    <2>2. \A o \in organizations : o.label # Default /\ o.label # Demo
      BY <1>3, <1>6
    <2>3. /\ NumberedRows(rows) /\ Cardinality(rows) = 1 + n
          /\ IdsOf(rows) = IdsOf(organizations) \cup {1 + n}
      BY <2>2, LabelsKnown, InsertedUnder
    <2>4. \A o \in rows : o.label # Demo
      BY <2>1, <2>2
    <2>5. /\ NumberedRows(rows \cup {second})
          /\ IdsOf(rows \cup {second}) = IdsOf(rows) \cup {1 + Cardinality(rows)}
      BY <2>3, <2>4, LabelsKnown, InsertedUnder
    <2>6. row(Default) = first /\ row(Demo) = second
      <3>1. NextOrganization + Position(Default) = 1 + n
        BY <1>2, <2>1
      <3>2. NextOrganization + Position(Demo) = 1 + Cardinality(rows)
        BY <1>2, <1>6, <2>3
      <3> HIDE DEF Position
      <3> QED BY <3>1, <3>2
    <2> HIDE DEF row, first, second
    <2>7. organizations' = rows \cup {second}
      BY <1>1, <1>6, <2>6
    <2>8. IdsOf(organizations) \subseteq IdsOf(rows \cup {second})
      BY <2>3, <2>5
    <2> HIDE DEF rows
    <2> QED BY <2>5, <2>7, <2>8 DEF OrganizationsGoal, IdsStay
  <1>7. \/ missing = {} \/ missing = {Default} \/ missing = {Demo} \/ missing = {Default, Demo}
    OBVIOUS
  <1>8. Default # Demo
    BY LabelsAssumption
  <1> HIDE DEF missing, row
  <1> QED BY <1>4, <1>5, <1>6, <1>7, <1>8, LabelsKnown

\* A slug's suffix counts organizations.
LEMMA SuffixFits ==
  ASSUME NumberedRows(organizations), NEW o \in organizations
  PROVE  Cardinality({p \in organizations : p.id <= o.id /\ SlugOf[p.label] = SlugOf[o.label]})
            \in OrganizationIds
  <1> DEFINE same == {p \in organizations : p.id <= o.id /\ SlugOf[p.label] = SlugOf[o.label]}
  <1>1. o.id \in Nat
    BY DEF NumberedRows, AnyOrganization
  <1>2. o \in same /\ same \subseteq organizations
    BY <1>1
  <1> HIDE DEF same
  <1>3. /\ IsFiniteSet(same) /\ Cardinality(same) \in Nat
        /\ Cardinality(same) <= Cardinality(organizations)
    BY <1>2, FS_Subset, FS_CardinalityType DEF NumberedRows
  <1>4. Cardinality(same) # 0
    BY <1>2, <1>3, FS_EmptySet
  <1>5. Cardinality(same) \in OrganizationIds
    BY <1>3, <1>4, RowsCount, LabelsCount DEF OrganizationIds
  <1> QED BY <1>5 DEF same

LEMMA OrganizationsStep ==
  ASSUME NumberedRows(organizations), [DeploymentNext]_deploymentVars
  PROVE  /\ NumberedRows(organizations')
         /\ ~ CreateEnterpriseTables /\ ~ DropEnterpriseTables => IdsStay
  <1>1. ASSUME UNCHANGED organizations PROVE OrganizationsGoal
    BY <1>1 DEF OrganizationsGoal, IdsStay
  <1>2. CreateEnterpriseTables => NumberedRows(organizations')
    BY FirstRows DEF CreateEnterpriseTables
  <1>3. DropEnterpriseTables => NumberedRows(organizations')
    BY FirstRows DEF DropEnterpriseTables
  <1>4. ASSUME BackfillSlugs PROVE OrganizationsGoal
    <2> DEFINE same(o) == {p \in organizations : p.id <= o.id /\ SlugOf[p.label] = SlugOf[o.label]}
               new(o) == [o EXCEPT !.slug = <<SlugOf[o.label], Cardinality(same(o))>>]
               f == [o \in organizations |-> new(o)]
    <2>1. organizations' = {f[o] : o \in organizations}
      BY <1>4 DEF BackfillSlugs
    <2>2. ASSUME NEW o \in organizations
          PROVE  /\ f[o] \in AnyOrganization /\ f[o].id = o.id /\ f[o].label = o.label
                 /\ f[o].slug \in Slugs \cup {NoSlug}
      <3>1. o \in AnyOrganization /\ o.label \in Labels
        BY DEF NumberedRows, AnyOrganization
      <3>2. Cardinality(same(o)) \in OrganizationIds
        BY SuffixFits
      <3> HIDE DEF same
      <3>3. <<SlugOf[o.label], Cardinality(same(o))>> \in Slugs
        BY <3>1, <3>2, SlugsNumbered
      <3>4. <<SlugOf[o.label], Cardinality(same(o))>> \in AnySlug
        BY <3>1, <3>2 DEF AnySlug, OrganizationIds
      <3>5. f[o] = [o EXCEPT !.slug = <<SlugOf[o.label], Cardinality(same(o))>>]
        OBVIOUS
      <3> HIDE DEF f
      <3> QED BY <3>1, <3>3, <3>4, <3>5 DEF AnyOrganization
    <2>3. f = [o \in organizations |-> f[o]]
      OBVIOUS
    <2> HIDE DEF f
    <2>4. \A a, b \in organizations : f[a].label = f[b].label => a = b
      BY <2>2 DEF NumberedRows
    <2> QED BY <2>1, <2>2, <2>3, <2>4, RowsRewritten DEF OrganizationsGoal, IdsStay
  <1>5. ASSUME DropSlugs PROVE OrganizationsGoal
    <2> DEFINE f == [o \in organizations |-> [o EXCEPT !.slug = NoSlug]]
    <2>1. organizations' = {f[o] : o \in organizations}
      BY <1>5 DEF DropSlugs
    <2>2. ASSUME NEW o \in organizations
          PROVE  /\ f[o] \in AnyOrganization /\ f[o].id = o.id /\ f[o].label = o.label
                 /\ f[o].slug \in Slugs \cup {NoSlug}
      BY DEF NumberedRows, AnyOrganization, AnySlug
    <2>3. f = [o \in organizations |-> f[o]]
      OBVIOUS
    <2> HIDE DEF f
    <2>4. \A a, b \in organizations : f[a].label = f[b].label => a = b
      BY <2>2 DEF NumberedRows
    <2> QED BY <2>1, <2>2, <2>3, <2>4, RowsRewritten DEF OrganizationsGoal, IdsStay
  <1>6. SeedDomain => OrganizationsGoal
    BY OrganizationsSeeded
  <1>7. ASSUME BootstrapAdministrator \/ BootstrapDemoUser \/ BootstrapOrganization
        PROVE  OrganizationsGoal
    <2>1. PICK l \in Labels : \E email : Provide(l, email) \/ UNCHANGED organizations
      BY <1>7, LabelsKnown
         DEF BootstrapAdministrator, BootstrapDemoUser, BootstrapOrganization, BootStep
    <2>2. ASSUME NEW email, Provide(l, email), Named(l) = {} PROVE OrganizationsGoal
      <3> DEFINE new == [id |-> NextOrganization, label |-> l, slug |-> <<SlugOf[l], 1>>]
      <3>1. organizations' = organizations \cup {new}
        BY <2>2 DEF Provide, With
      <3>2. \A o \in organizations : o.label # l
        BY <2>2 DEF Named
      <3>3. /\ NumberedRows(organizations \cup {new})
            /\ IdsOf(organizations \cup {new}) = IdsOf(organizations) \cup {NextOrganization}
        BY <3>2, InsertedUnder DEF NextOrganization
      <3> HIDE DEF new
      <3> QED BY <3>1, <3>3 DEF OrganizationsGoal, IdsStay
    <2>3. ASSUME NEW email, Provide(l, email), Named(l) # {} PROVE UNCHANGED organizations
      BY <2>3 DEF Provide
    <2> QED BY <2>1, <2>2, <2>3, <1>1
  <1>8. ASSUME RenameOrganization PROVE OrganizationsGoal
    <2>1. PICK c \in organizations, l \in Labels :
            /\ Named(l) = {}
            /\ organizations' = (organizations \ {c}) \cup {[c EXCEPT !.label = l]}
      BY <1>8 DEF RenameOrganization
    <2> DEFINE new == [c EXCEPT !.label = l]
               f == [o \in organizations |-> IF o = c THEN new ELSE o]
    <2>2. new \in AnyOrganization /\ new.id = c.id /\ new.label = l /\ new.slug = c.slug
      BY DEF NumberedRows, AnyOrganization
    <2> HIDE DEF new
    <2>3. organizations' = {f[o] : o \in organizations}
      BY <2>1 DEF new
    <2>4. \A o \in organizations : /\ f[o] \in AnyOrganization /\ f[o].id = o.id
                                    /\ f[o].slug \in Slugs \cup {NoSlug}
      BY <2>2 DEF NumberedRows
    <2>5. \A a, b \in organizations : f[a].label = f[b].label => a = b
      BY <2>1, <2>2 DEF NumberedRows, Named
    <2>6. f = [o \in organizations |-> f[o]]
      OBVIOUS
    <2> HIDE DEF f
    <2> QED BY <2>3, <2>4, <2>5, <2>6, RowsRewritten DEF OrganizationsGoal, IdsStay
  <1>9. ASSUME \/ CreateDomainTables \/ DropDomainTables \/ UnseedDomain
               \/ ScopeRecords \/ UnscopeRecords
               \/ RelinkRecords \/ KeepLinks \/ DropNames \/ RestoreNames
               \/ Boot \/ Stop \/ CreateDeliveryProject \/ StoreRecord
               \/ UNCHANGED deploymentVars
         PROVE  UNCHANGED organizations
    BY <1>9 DEF CreateDomainTables, DropDomainTables, UnseedDomain, ScopeRecords, UnscopeRecords,
                RelinkRecords, KeepLinks, DropNames, RestoreNames, Boot, Stop,
                CreateDeliveryProject, StoreRecord, deploymentVars
  <1> QED BY <1>1, <1>2, <1>3, <1>4, <1>5, <1>6, <1>7, <1>8, <1>9
          DEF DeploymentNext, Migration, OrganizationsGoal

\* Only one downgrade leads to the first release.
LEMMA FirstRevision ==
  ASSUME [DeploymentNext]_deploymentVars, revision' = 1, ~ DropEnterpriseTables
  PROVE  revision = 1
  <1>1. ASSUME ScopeRecords \/ UnscopeRecords \/ RelinkRecords PROVE FALSE
    BY <1>1 DEF ScopeRecords, UnscopeRecords, RelinkRecords, Migrate
  <1>2. ASSUME DropNames \/ RestoreNames PROVE FALSE
    BY <1>2 DEF DropNames, RestoreNames, Migrate, NewestRevision
  <1>3. ASSUME \/ Boot \/ BootstrapAdministrator \/ BootstrapDemoUser \/ BootstrapOrganization
               \/ Stop \/ RenameOrganization \/ CreateDeliveryProject \/ StoreRecord
               \/ UNCHANGED deploymentVars
        PROVE  revision' = revision
    BY <1>3 DEF Boot, BootstrapAdministrator, BootstrapDemoUser, BootstrapOrganization, BootStep,
                Stop, RenameOrganization, CreateDeliveryProject, StoreRecord, deploymentVars
  <1>4. ~ (revision' \in 2 .. 14) /\ revision' # 2
    OBVIOUS
  <1> QED BY <1>1, <1>2, <1>3, <1>4, EnterpriseRevisions, OtherRevisions
          DEF DeploymentNext, Migration

\* Only a start makes accounts, and the first migration drops them again.
LEMMA AccountsStep ==
  ASSUME PlacesInv, [DeploymentNext]_deploymentVars
  PROVE  /\ accounts' \subseteq IdsOf(organizations') \X Emails
         /\ revision' = 1 => accounts' = {}
  <1> DEFINE Goal == accounts' \subseteq IdsOf(organizations') \X Emails
  <1>1. NumberedRows(organizations) /\ accounts \subseteq IdsOf(organizations) \X Emails
    BY DEF PlacesInv
  <1>2. ASSUME UNCHANGED accounts, IdsStay PROVE Goal
    BY <1>1, <1>2 DEF IdsStay
  <1>3. ASSUME CreateEnterpriseTables PROVE Goal
    <2>1. revision = 1
      BY <1>3, EnterpriseRevisions
    <2> QED BY <1>3, <2>1 DEF CreateEnterpriseTables, PlacesInv
  <1>4. ASSUME DropEnterpriseTables PROVE Goal
    BY <1>4 DEF DropEnterpriseTables
  <1>5. ASSUME NEW l \in Labels, NEW email \in Emails, Provide(l, email) PROVE Goal
    BY <1>1, <1>5, OrganizationProvided
  <1>6. ASSUME BootstrapAdministrator \/ BootstrapDemoUser \/ BootstrapOrganization
        PROVE  Goal
    <2>1. PICK l \in Labels, email \in Emails :
             Provide(l, email) \/ UNCHANGED <<organizations, accounts>>
      BY <1>6, LabelsKnown, EmailsAssumption
         DEF BootstrapAdministrator, BootstrapDemoUser, BootstrapOrganization, BootStep
    <2> QED BY <1>1, <1>5, <2>1
  <1>7. ~ CreateEnterpriseTables /\ ~ DropEnterpriseTables => IdsStay
    BY <1>1, OrganizationsStep
  <1>8. ASSUME ~ CreateEnterpriseTables, ~ DropEnterpriseTables, ~ BootstrapAdministrator,
               ~ BootstrapDemoUser, ~ BootstrapOrganization
        PROVE  UNCHANGED accounts
    BY <1>8 DEF DeploymentNext, Migration, BackfillSlugs, DropSlugs, CreateDomainTables,
                DropDomainTables, SeedDomain, UnseedDomain, ScopeRecords, UnscopeRecords,
                RelinkRecords, KeepLinks, DropNames, RestoreNames, Boot, Stop,
                RenameOrganization, CreateDeliveryProject, StoreRecord, deploymentVars
  <1>9. revision' = 1 => accounts' = {}
    <2>1. CASE BootstrapAdministrator \/ BootstrapDemoUser \/ BootstrapOrganization
      <3>1. revision' = NewestRevision
        BY <2>1 DEF BootstrapAdministrator, BootstrapDemoUser, BootstrapOrganization, BootStep,
                    Started
      <3> QED BY <3>1 DEF NewestRevision
    <2>2. CASE DropEnterpriseTables
      BY <2>2 DEF DropEnterpriseTables
    <2>3. CASE CreateEnterpriseTables
      BY <2>3, EnterpriseRevisions
    <2> QED BY <1>8, <2>1, <2>2, <2>3, FirstRevision DEF PlacesInv
  <1>10. Goal
    BY <1>2, <1>3, <1>4, <1>6, <1>7, <1>8
  <1> QED BY <1>9, <1>10

\* Only the seed and its removal write portfolios and programs.
LEMMA HierarchyStep ==
  ASSUME PlacesInv, revision \in AllRevisions, [DeploymentNext]_deploymentVars
  PROVE  /\ hierarchy' \subseteq IdsOf(organizations')
         /\ revision' < 5 => hierarchy' = {}
  <1> DEFINE Goal == /\ hierarchy' \subseteq IdsOf(organizations')
                     /\ revision' < 5 => hierarchy' = {}
  <1>1. /\ hierarchy \subseteq IdsOf(organizations) /\ (revision < 5 => hierarchy = {})
        /\ NumberedRows(organizations)
    BY DEF PlacesInv
  <1>2. ~ CreateEnterpriseTables /\ ~ DropEnterpriseTables => IdsStay
    BY <1>1, OrganizationsStep
  <1>3. ASSUME CreateEnterpriseTables \/ DropEnterpriseTables PROVE Goal
    <2>1. revision < 5
      BY <1>3, EnterpriseRevisions
    <2>2. hierarchy' = hierarchy
      BY <1>3 DEF CreateEnterpriseTables, DropEnterpriseTables
    <2> QED BY <1>1, <2>1, <2>2
  <1>4. ASSUME DropDomainTables PROVE Goal
    BY <1>4 DEF DropDomainTables
  <1>5. ASSUME SeedDomain PROVE Goal
    <2>1. revision' = 8
      BY <1>5 DEF SeedDomain, Migrate
    <2>2. hierarchy' = hierarchy \cup SeedOrganizations(organizations')
      BY <1>5 DEF SeedDomain
    <2>3. SeedOrganizations(organizations') \subseteq IdsOf(organizations')
      BY DEF SeedOrganizations, IdsOf
    <2>4. IdsStay
      BY <1>1, <1>5, OrganizationsSeeded DEF OrganizationsGoal
    <2> QED BY <1>1, <2>1, <2>2, <2>3, <2>4 DEF IdsStay
  <1>6. ASSUME UnseedDomain PROVE Goal
    <2>1. revision' = 5 /\ organizations' = organizations
      BY <1>6 DEF UnseedDomain, Migrate
    <2>2. hierarchy' \subseteq hierarchy
      BY <1>6 DEF UnseedDomain
    <2> QED BY <1>1, <2>1, <2>2
  <1>7. ASSUME BackfillSlugs \/ DropSlugs \/ CreateDomainTables
        PROVE  hierarchy' = hierarchy /\ revision < 5
    BY <1>7 DEF BackfillSlugs, DropSlugs, CreateDomainTables, Migrate
  <1>8. ASSUME ScopeRecords \/ UnscopeRecords \/ RelinkRecords \/ KeepLinks
        PROVE  hierarchy' = hierarchy /\ revision' >= 5
    BY <1>8 DEF ScopeRecords, UnscopeRecords, RelinkRecords, KeepLinks, Migrate, NewestRevision
  <1>9. ASSUME DropNames \/ RestoreNames PROVE hierarchy' = hierarchy /\ revision' >= 5
    BY <1>9 DEF DropNames, RestoreNames, Migrate, NewestRevision
  <1>10. ASSUME \/ Boot \/ BootstrapAdministrator \/ BootstrapDemoUser \/ BootstrapOrganization
                \/ Stop \/ RenameOrganization \/ CreateDeliveryProject \/ StoreRecord
                \/ UNCHANGED deploymentVars
         PROVE  hierarchy' = hierarchy /\ revision' = revision
    BY <1>10 DEF Boot, BootstrapAdministrator, BootstrapDemoUser, BootstrapOrganization, BootStep,
                 Stop, RenameOrganization, CreateDeliveryProject, StoreRecord, deploymentVars
  <1>11. ASSUME hierarchy' = hierarchy, IdsStay,
                revision < 5 \/ revision' >= 5 \/ revision' = revision
         PROVE  Goal
    <2>1. revision \in Nat /\ revision' \in Nat
      BY RevisionStep DEF AllRevisions
    <2> QED BY <1>1, <1>11, <2>1 DEF IdsStay
  <1>12. CASE CreateEnterpriseTables \/ DropEnterpriseTables
    BY <1>3, <1>12
  <1>13. ASSUME ~ CreateEnterpriseTables, ~ DropEnterpriseTables, ~ DropDomainTables,
                ~ SeedDomain, ~ UnseedDomain
         PROVE  hierarchy' = hierarchy /\ (revision < 5 \/ revision' >= 5 \/ revision' = revision)
    BY <1>7, <1>8, <1>9, <1>10, <1>13 DEF DeploymentNext, Migration
  <1>14. ASSUME ~ CreateEnterpriseTables, ~ DropEnterpriseTables, ~ DropDomainTables,
                ~ SeedDomain, ~ UnseedDomain
         PROVE  Goal
    <2>1. IdsStay
      BY <1>2, <1>14
    <2> QED BY <1>11, <1>13, <1>14, <2>1
  <1> QED BY <1>4, <1>5, <1>6, <1>12, <1>14

\* Projects are of organizations.
LEMMA ProjectOrganizations ==
  ASSUME PlacesInv, [DeploymentNext]_deploymentVars
  PROVE  \A p \in delivery' : p.org \in IdsOf(organizations')
  <1> DEFINE Goal == \A p \in delivery' : p.org \in IdsOf(organizations')
             Among == \A p \in delivery' : p.org \in IdsOf(organizations)
  <1>1. /\ \A p \in delivery : p.org \in IdsOf(organizations)
        /\ hierarchy \subseteq IdsOf(organizations) /\ NumberedRows(organizations)
        /\ ~ CreateEnterpriseTables /\ ~ DropEnterpriseTables => IdsStay
    BY OrganizationsStep DEF PlacesInv
  <1>2. ASSUME CreateEnterpriseTables PROVE Goal
    <2>1. PICK first \in [{Resolved(r.name) : r \in records} -> records] :
            delivery' = {[org |-> 1, name |-> n, legacy |-> first[n].name # "",
                          code |-> "", attached |-> FALSE] : n \in DOMAIN first}
      BY <1>2 DEF CreateEnterpriseTables
    <2>2. ASSUME NEW b, NEW n
          PROVE  [org |-> 1, name |-> n, legacy |-> b, code |-> "", attached |-> FALSE].org = 1
      OBVIOUS
    <2>3. \A p \in delivery' : \E b, n :
             p = [org |-> 1, name |-> n, legacy |-> b, code |-> "", attached |-> FALSE]
      BY <2>1
    <2>4. ASSUME NEW p \in delivery' PROVE p.org = 1
      <3>1. PICK b, n :
               p = [org |-> 1, name |-> n, legacy |-> b, code |-> "", attached |-> FALSE]
        BY <2>3
      <3> QED BY <2>2, <3>1, Zenon
    <2>5. IdsOf(organizations') = {1}
      BY <1>2, FirstRows DEF CreateEnterpriseTables
    <2> QED BY <2>4, <2>5
  <1>3. ASSUME DropEnterpriseTables PROVE Goal
    BY <1>3 DEF DropEnterpriseTables
  <1>4. ASSUME DropDomainTables PROVE Among
    <2> DEFINE new(p) == [p EXCEPT !.code = "", !.attached = FALSE]
    <2>1. delivery' = {new(p) : p \in delivery}
      BY <1>4 DEF DropDomainTables
    <2>2. \A p \in delivery : new(p).org = p.org
      OBVIOUS
    <2> QED BY <1>1, <2>1, <2>2
  <1>5. ASSUME SeedDomain PROVE Goal
    <2>1. IdsStay
      BY <1>1, <1>5, OrganizationsSeeded DEF OrganizationsGoal
    <2>2. SeedOrganizations(organizations') \subseteq IdsOf(organizations')
      BY DEF SeedOrganizations, IdsOf
    <2>3. \A p \in delivery' : \/ p \in delivery
                              \/ \E o \in SeedOrganizations(organizations') : p \in SeededRows(o)
      BY <1>5 DEF SeedDomain
    <2>4. \A o : \A p \in SeededRows(o) : p.org = o
      <3>1. ASSUME NEW o, NEW p \in SeededRows(o) PROVE p.org = o
        <4>1. CASE \E q \in delivery : q.org = o /\
                     p = IF q.attached THEN q ELSE [q EXCEPT !.code = q.name, !.attached = TRUE]
          <5>1. PICK q \in delivery : q.org = o /\
                     p = IF q.attached THEN q ELSE [q EXCEPT !.code = q.name, !.attached = TRUE]
            BY <4>1
          <5>2. [q EXCEPT !.code = q.name, !.attached = TRUE].org = q.org
            OBVIOUS
          <5> QED BY <5>1, <5>2
        <4>2. CASE \E name : p = [org |-> o, name |-> name, legacy |-> FALSE, code |-> name,
                                  attached |-> TRUE]
          BY <4>2
        <4> QED BY <3>1, <4>1, <4>2 DEF SeededRows
      <3> QED BY <3>1
    <2> QED BY <1>1, <2>1, <2>2, <2>3, <2>4 DEF IdsStay
  <1>6. ASSUME UnseedDomain PROVE Among
    <2>1. \A p \in delivery' :
             \E q \in delivery : p = q \/ p = [q EXCEPT !.code = "", !.attached = FALSE]
      BY <1>6 DEF UnseedDomain
    <2>2. \A q : [q EXCEPT !.code = "", !.attached = FALSE].org = q.org
      OBVIOUS
    <2> QED BY <1>1, <2>1, <2>2
  <1>7. ASSUME CreateDeliveryProject PROVE Among
    <2>1. PICK org \in hierarchy, name \in ProjectKeys, code \in Seeded \cup {""} :
            delivery' = delivery \cup
              {[org |-> org, name |-> name, legacy |-> FALSE, code |-> code, attached |-> TRUE]}
      BY <1>7 DEF CreateDeliveryProject
    <2> DEFINE new == [org |-> org, name |-> name, legacy |-> FALSE, code |-> code,
                       attached |-> TRUE]
    <2>2. delivery' = delivery \cup {new} /\ new.org = org
      BY <2>1
    <2> HIDE DEF new
    <2> QED BY <1>1, <2>2
  <1>8. ASSUME StoreRecord PROVE Among
    <2>1. PICK o \in organizations, text \in FreeTexts :
            \/ delivery' = delivery
            \/ delivery' = delivery \cup
                 {[org |-> o.id, name |-> Resolved(text), legacy |-> text # "", code |-> "",
                   attached |-> FALSE]}
      BY <1>8 DEF StoreRecord
    <2>2. PICK b : b = (text # "")
      OBVIOUS
    <2> DEFINE new == [org |-> o.id, name |-> Resolved(text), legacy |-> b, code |-> "",
                       attached |-> FALSE]
    <2>3. delivery' = delivery \/ delivery' = delivery \cup {new}
      BY <2>1, <2>2
    <2>4. new.org = o.id
      OBVIOUS
    <2> HIDE DEF new
    <2> QED BY <1>1, <2>3, <2>4 DEF IdsOf
  <1>9. ASSUME \/ BackfillSlugs \/ DropSlugs \/ CreateDomainTables \/ ScopeRecords
               \/ UnscopeRecords \/ RelinkRecords \/ KeepLinks \/ DropNames \/ RestoreNames
               \/ Boot \/ BootstrapAdministrator \/ BootstrapDemoUser \/ BootstrapOrganization
               \/ Stop \/ RenameOrganization \/ UNCHANGED deploymentVars
        PROVE  UNCHANGED delivery
    BY <1>9 DEF BackfillSlugs, DropSlugs, CreateDomainTables, ScopeRecords, UnscopeRecords,
                RelinkRecords, KeepLinks, DropNames, RestoreNames, Boot, BootstrapAdministrator,
                BootstrapDemoUser, BootstrapOrganization, BootStep, Stop, RenameOrganization,
                deploymentVars
  <1>10. ASSUME UNCHANGED delivery PROVE Among
    BY <1>1, <1>10
  <1>11. ASSUME Among, IdsStay PROVE Goal
    BY <1>11 DEF IdsStay
  <1> HIDE DEF Goal, Among
  <1>12. ASSUME ~ CreateEnterpriseTables, ~ DropEnterpriseTables, ~ SeedDomain PROVE Among
    BY <1>4, <1>6, <1>7, <1>8, <1>9, <1>10, <1>12 DEF DeploymentNext, Migration
  <1>13. Goal
    BY <1>1, <1>2, <1>3, <1>5, <1>11, <1>12
  <1> QED BY <1>13 DEF Goal

\* So are analyses, from the migration that files them by organization on.
LEMMA RecordOrganizations ==
  ASSUME DeploymentInv, PlacesInv, [DeploymentNext]_deploymentVars
  PROVE  \A r \in records' : r.org \in {NoOrganization} \cup OrganizationIds
  <1> DEFINE Goal == \A r \in records' : r.org \in {NoOrganization} \cup OrganizationIds
  <1>1. /\ \A r \in records : r.org \in {NoOrganization} \cup OrganizationIds
        /\ \A p \in delivery : p.org \in OrganizationIds
        /\ IdsOf(organizations) \subseteq OrganizationIds
        /\ records \subseteq AnyRecord
    BY RowsCount DEF PlacesInv, DeploymentInv, RowShape
  <1>2. ASSUME NEW f, records' = {f[r] : r \in records}, \A r \in records : f[r].org = r.org
        PROVE  Goal
    BY <1>1, <1>2
  <1>3. ASSUME CreateEnterpriseTables PROVE Goal
    <2> DEFINE f == [r \in records |-> [r EXCEPT !.project = <<1, Resolved(r.name)>>]]
    <2>1. records' = {f[r] : r \in records} /\ \A r \in records : f[r].org = r.org
      BY <1>1, <1>3 DEF CreateEnterpriseTables, AnyRecord
    <2> HIDE DEF f
    <2> QED BY <1>2, <2>1
  <1>4. ASSUME DropEnterpriseTables PROVE Goal
    <2> DEFINE f == [r \in records |-> [r EXCEPT !.project = NoProject]]
    <2>1. records' = {f[r] : r \in records} /\ \A r \in records : f[r].org = r.org
      BY <1>1, <1>4 DEF DropEnterpriseTables, AnyRecord
    <2> HIDE DEF f
    <2> QED BY <1>2, <2>1
  <1>5. ASSUME ScopeRecords PROVE Goal
    <2> DEFINE new(r) == [r EXCEPT !.org = r.project[1]]
    <2>1. records' = {new(r) : r \in records} /\ \A r \in records : r.project # NoProject
      BY <1>5 DEF ScopeRecords
    <2>2. ASSUME NEW r \in records PROVE new(r).org \in OrganizationIds
      <3>1. PICK p \in delivery : Key(p) = r.project
        BY <2>1 DEF DeploymentInv, Referenced
      <3>2. new(r).org = p.org
        BY <1>1, <3>1 DEF AnyRecord, Key
      <3> QED BY <1>1, <3>2
    <2> QED BY <2>1, <2>2
  <1>6. ASSUME UnscopeRecords PROVE Goal
    <2> DEFINE new(r) == [r EXCEPT !.org = NoOrganization]
    <2>1. records' = {new(r) : r \in records}
      BY <1>6 DEF UnscopeRecords
    <2>2. \A r \in records : new(r).org = NoOrganization
      BY <1>1 DEF AnyRecord
    <2> QED BY <2>1, <2>2
  <1>7. ASSUME RelinkRecords PROVE Goal
    <2> DEFINE f == [r \in records |-> Relinked(r)]
    <2>1. records' = {f[r] : r \in records} /\ \A r \in records : f[r].org = r.org
      BY <1>1, <1>7 DEF RelinkRecords, Relinked, AnyRecord
    <2> HIDE DEF f
    <2> QED BY <1>2, <2>1
  <1>8. ASSUME DropNames PROVE Goal
    <2> DEFINE f == [r \in records |-> [r EXCEPT !.name = NullName]]
    <2>1. records' = {f[r] : r \in records} /\ \A r \in records : f[r].org = r.org
      BY <1>1, <1>8 DEF DropNames, AnyRecord
    <2> HIDE DEF f
    <2> QED BY <1>2, <2>1
  <1>9. ASSUME RestoreNames PROVE Goal
    <2> DEFINE f == [r \in records |-> [r EXCEPT !.name = RestoredName(r)]]
    <2>1. records' = {f[r] : r \in records} /\ \A r \in records : f[r].org = r.org
      BY <1>1, <1>9 DEF RestoreNames, AnyRecord
    <2> HIDE DEF f
    <2> QED BY <1>2, <2>1
  <1>10. ASSUME StoreRecord PROVE Goal
    <2>1. PICK i \in Records, o \in organizations, text \in FreeTexts :
            records' = records \cup {[id |-> i, name |-> NullName,
                                      project |-> <<o.id, Resolved(text)>>, org |-> o.id]}
      BY <1>10 DEF StoreRecord
    <2>2. \A r \in records' : r \in records \/ r.org = o.id
      BY <2>1
    <2> QED BY <1>1, <2>2 DEF IdsOf
  <1>11. ASSUME UNCHANGED records PROVE Goal
    BY <1>1, <1>11
  <1>12. ASSUME \/ Boot \/ BootstrapAdministrator \/ BootstrapDemoUser \/ BootstrapOrganization
                \/ Stop \/ RenameOrganization \/ CreateDeliveryProject \/ UNCHANGED deploymentVars
         PROVE  UNCHANGED records
    BY <1>12 DEF Boot, BootstrapAdministrator, BootstrapDemoUser, BootstrapOrganization, BootStep,
                 Stop, RenameOrganization, CreateDeliveryProject, deploymentVars
  <1> HIDE DEF Goal
  <1>13. Goal
    BY <1>3, <1>4, <1>5, <1>6, <1>7, <1>8, <1>9, <1>10, <1>11, <1>12, OtherRevisions
       DEF DeploymentNext, Migration
  <1> QED BY <1>13 DEF Goal

LEMMA ServerStep ==
  ASSUME server \in ServerStates, [DeploymentNext]_deploymentVars
  PROVE  server' \in ServerStates
  <1>1. ASSUME NEW from, NEW to, Migrate(from, to) PROVE server' = server
    BY <1>1 DEF Migrate
  <1>2. Migration => \E from, to : Migrate(from, to)
    <2>1. ASSUME SeedDomain \/ UnseedDomain PROVE \E from, to : Migrate(from, to)
      BY <2>1 DEF SeedDomain, UnseedDomain
    <2>2. ASSUME \/ CreateEnterpriseTables \/ DropEnterpriseTables \/ BackfillSlugs \/ DropSlugs
                 \/ CreateDomainTables \/ DropDomainTables \/ ScopeRecords \/ UnscopeRecords
                 \/ RelinkRecords \/ KeepLinks \/ DropNames \/ RestoreNames
          PROVE  \E from, to : Migrate(from, to)
      BY <2>2 DEF CreateEnterpriseTables, DropEnterpriseTables, BackfillSlugs, DropSlugs,
                  CreateDomainTables, DropDomainTables, ScopeRecords, UnscopeRecords,
                  RelinkRecords, KeepLinks, DropNames, RestoreNames
    <2> QED BY <2>1, <2>2 DEF Migration
  <1>3. ASSUME \/ Boot \/ BootstrapAdministrator \/ BootstrapDemoUser \/ BootstrapOrganization
               \/ Stop \/ RenameOrganization \/ CreateDeliveryProject \/ StoreRecord
               \/ UNCHANGED deploymentVars
        PROVE  server' \in ServerStates
    BY <1>3 DEF Boot, BootstrapAdministrator, BootstrapDemoUser, BootstrapOrganization, BootStep,
                Stop, RenameOrganization, CreateDeliveryProject, StoreRecord, deploymentVars,
                ServerStates
  <1> QED BY <1>1, <1>2, <1>3 DEF DeploymentNext

InstallationInv == DeploymentInv /\ PlacesInv

LEMMA InstallationInitInv == DeploymentInit => InstallationInv
  <1> SUFFICES ASSUME DeploymentInit PROVE InstallationInv
    OBVIOUS
  <1>1. /\ organizations = {} /\ hierarchy = {} /\ accounts = {} /\ delivery = {}
        /\ server \in ServerStates
    BY DEF DeploymentInit, ServerStates
  <1>2. \A r \in records : r.org = NoOrganization
    BY DEF DeploymentInit
  <1> QED BY <1>1, <1>2, FirstRows, DeploymentInitInv DEF InstallationInv, PlacesInv

LEMMA InstallationStepInv == InstallationInv /\ [DeploymentNext]_deploymentVars => InstallationInv'
  <1> SUFFICES ASSUME InstallationInv, [DeploymentNext]_deploymentVars PROVE InstallationInv'
    OBVIOUS
  <1>1. DeploymentInv /\ PlacesInv /\ revision \in AllRevisions
    BY DEF InstallationInv, DeploymentInv
  <1>2. NumberedRows(organizations)'
    BY <1>1, OrganizationsStep DEF PlacesInv
  <1>3. server' \in ServerStates
    BY <1>1, ServerStep DEF PlacesInv
  <1>4. PlacesInv'
    BY <1>1, <1>2, <1>3, AccountsStep, HierarchyStep, ProjectOrganizations, RecordOrganizations
       DEF PlacesInv
  <1> QED BY <1>1, <1>4, DeploymentStepInv DEF InstallationInv

LEMMA InstallationTypes == InstallationInv => DeploymentTypeOK
  <1> SUFFICES ASSUME InstallationInv PROVE DeploymentTypeOK
    OBVIOUS
  <1>1. DeploymentInv /\ PlacesInv /\ NumberedRows(organizations)
    BY DEF InstallationInv, PlacesInv
  <1>2. \E i \in DOMAIN Revisions : Revisions[i] = revision
    <2>1. \A n \in AllRevisions : \E i \in 1 .. 8 : Revisions[i] = n
      BY DEF AllRevisions, Revisions
    <2>2. DOMAIN Revisions = 1 .. 8
      BY DEF Revisions
    <2> QED BY <1>1, <2>1, <2>2 DEF DeploymentInv
  <1>3. organizations \subseteq OrganizationRow
    <2>1. ASSUME NEW o \in organizations PROVE o \in OrganizationRow
      <3>1. o \in AnyOrganization /\ o.slug \in Slugs \cup {NoSlug}
        BY <1>1 DEF NumberedRows
      <3>2. o.id \in OrganizationIds
        BY <1>1, RowsCount DEF IdsOf
      <3> QED BY <3>1, <3>2 DEF OrganizationRow, AnyOrganization
    <2> QED BY <2>1
  <1>4. delivery \subseteq ProjectRow
    <2>1. ASSUME NEW p \in delivery PROVE p \in ProjectRow
      <3>1. p \in AnyProject /\ p.org \in OrganizationIds
        BY <1>1, RowsCount DEF DeploymentInv, RowShape, PlacesInv
      <3> QED BY <3>1 DEF ProjectRow, AnyProject, ProjectNames
    <2> QED BY <2>1
  <1>5. records \subseteq RecordRow
    <2>1. ASSUME NEW r \in records PROVE r \in RecordRow
      <3>1. r \in AnyRecord /\ r.org \in {NoOrganization} \cup OrganizationIds
        BY <1>1 DEF DeploymentInv, RowShape, PlacesInv
      <3>2. r.project \in (OrganizationIds \X (ProjectKeys \cup {Untitled})) \cup {NoProject}
        <4>1. ASSUME r.project # NoProject
              PROVE  r.project \in OrganizationIds \X (ProjectKeys \cup {Untitled})
          <5>1. PICK p \in delivery : Key(p) = r.project
            BY <1>1, <4>1 DEF DeploymentInv, Referenced
          <5>2. p \in ProjectRow
            BY <1>4
          <5>3. p.org \in OrganizationIds /\ p.name \in ProjectKeys \cup {Untitled}
            BY <5>2 DEF ProjectRow
          <5>4. r.project = <<p.org, p.name>>
            BY <5>1 DEF Key
          <5> QED BY <5>3, <5>4
        <4> QED BY <4>1
      <3> QED BY <3>1, <3>2 DEF RecordRow, AnyRecord, StoredTexts
    <2> QED BY <2>1
  <1>6. \A r \in records : r.project # NoProject => \E p \in delivery : Key(p) = r.project
    BY <1>1 DEF DeploymentInv, Referenced
  <1>7. /\ hierarchy \subseteq {o.id : o \in organizations}
        /\ accounts \subseteq {o.id : o \in organizations} \X Emails
        /\ server \in ServerStates
    BY <1>1 DEF PlacesInv, IdsOf
  <1> QED BY <1>2, <1>3, <1>4, <1>5, <1>6, <1>7 DEF DeploymentTypeOK

LEMMA InstallationInvariant == DeploymentSpec => []InstallationInv
  BY InstallationInitInv, InstallationStepInv, PTL DEF DeploymentSpec

\* Through any upgrades, downgrades, boots and user actions, organizations are
\* numbered without gaps and have a label each (NumberedRows), no project,
\* portfolio or account is left without its organization and no analysis
\* without its project, and every row keeps its shape.
THEOREM RowsKeepTheirShape ==
    DeploymentSpec => [](DeploymentTypeOK /\ PlacesInv)
  BY InstallationInvariant, InstallationTypes, PTL DEF InstallationInv

-----------------------------------------------------------------------------
(* The metrics of stored figures. *)

\* A set of days has a last one.
LEMMA LatestFacts ==
  ASSUME NEW S \in SUBSET (0 .. LastDay), S # {}
  PROVE  Latest(S) \in S /\ \A y \in S : y <= Latest(S)
  BY HighestOf, LastDayAssumption DEF Latest

LEMMA LatestIs ==
  ASSUME NEW S \in SUBSET (0 .. LastDay), NEW x \in S, \A y \in S : y <= x
  PROVE  Latest(S) = x
  <1>1. Latest(S) \in S /\ \A y \in S : y <= Latest(S)
    BY LatestFacts
  <1>2. S \subseteq Int
    BY LastDayAssumption
  <1>3. x \in Int /\ Latest(S) \in Int
    BY <1>1, <1>2
  <1>4. x <= Latest(S) /\ Latest(S) <= x
    BY <1>1
  <1> QED BY <1>3, <1>4

\* The amounts are natural numbers and the days are in the calendar.
LEMMA Amounts ==
  ASSUME MetricsTypeOK
  PROVE  /\ today \in 0 .. LastDay
         /\ budget \in Nat
         /\ Whole \in Nat /\ Whole > 0
         /\ DOMAIN captured \subseteq 0 .. LastDay
         /\ \A d \in DOMAIN captured : captured[d][1] \in Nat /\ captured[d][2] \in Nat
  <1>1. \A d \in DOMAIN captured : captured[d] \in Costs \X Progress
    BY DEF MetricsTypeOK, Figures
  <1>2. Costs \subseteq Nat /\ Progress \subseteq Nat
    BY AmountsAssumption, ProgressAssumption, WholeAssumption
  <1>3. \A d \in DOMAIN captured : captured[d][1] \in Nat /\ captured[d][2] \in Nat
    BY <1>1, <1>2
  <1>4. today \in 0 .. LastDay /\ DOMAIN captured \subseteq 0 .. LastDay
    BY LastDayAssumption DEF MetricsTypeOK
  <1> QED BY <1>3, <1>4, AmountsAssumption, WholeAssumption DEF MetricsTypeOK

\* Every snapshot day up to a day is in the calendar; a captured day is the
\* latest of those up to itself.
LEMMA SnapshotDaysFacts ==
  ASSUME MetricsTypeOK, NEW day \in Nat
  PROVE  /\ SnapshotDays(day) \in SUBSET (0 .. LastDay)
         /\ SnapshotDays(day) \subseteq DOMAIN captured
         /\ SnapshotDays(day) # {} => Latest(SnapshotDays(day)) \in DOMAIN captured
         /\ day \in DOMAIN captured => SnapshotDays(day) # {} /\ Latest(SnapshotDays(day)) = day
  <1>1. SnapshotDays(day) \in SUBSET (0 .. LastDay) /\ SnapshotDays(day) \subseteq DOMAIN captured
    BY Amounts DEF SnapshotDays
  <1>2. SnapshotDays(day) # {} => Latest(SnapshotDays(day)) \in DOMAIN captured
    BY <1>1, LatestFacts
  <1>3. ASSUME day \in DOMAIN captured
        PROVE  SnapshotDays(day) # {} /\ Latest(SnapshotDays(day)) = day
    <2>1. day \in SnapshotDays(day) /\ \A y \in SnapshotDays(day) : y <= day
      BY <1>3 DEF SnapshotDays
    <2> QED BY <2>1, <1>1, LatestIs
  <1> QED BY <1>1, <1>2, <1>3

LEMMA MetricFacts ==
    /\ \A n, d : Is(Present(n, d)) /\ Present(n, d).num = n /\ Present(n, d).den = d
    /\ \A m : Is(m) <=> m.why = "present"
    /\ \A r : NA(r).why = r /\ NA(r).num = 0
  BY DEF Is, Present, NA

\* A reason is not a value.
LEMMA NotAvailable ==
    /\ ~ Is(NA("zero cost")) /\ NA("zero cost").why = "zero cost"
    /\ ~ Is(NA("zero cpi")) /\ ~ Is(NA("zero"))
    /\ ~ Is(NA("no baseline")) /\ NA("no baseline").why = "no baseline"
    /\ ~ Is(NA("no snapshot")) /\ NA("no snapshot").why = "no snapshot"
  BY DEF Is, NA

\* Ratio of two metrics that are there.
LEMMA RatioOfKnown ==
  ASSUME NEW a, NEW b, NEW reason, Is(a), Is(b)
  PROVE  /\ b.num = 0 => Ratio(a, b, reason) = NA(reason)
         /\ b.num # 0 => Ratio(a, b, reason) = Present(a.num * b.den, a.den * b.num)
  BY DEF Ratio

LEMMA RatioOfUnknown ==
  ASSUME NEW a, NEW b, NEW reason, ~ Is(a)
  PROVE  ~ Is(Ratio(a, b, reason))
  <1>1. a.why # "present" /\ Missing(a, b) = a.why
    BY MetricFacts DEF Missing
  <1>2. Ratio(a, b, reason) = NA(a.why)
    BY <1>1 DEF Ratio
  <1> QED BY <1>1, <1>2, MetricFacts

-----------------------------------------------------------------------------
(* Products. *)

LEMMA Products ==
  ASSUME NEW x \in Nat, NEW y \in Nat
  PROVE  /\ x * y \in Nat
         /\ x * y > 0 <=> x > 0 /\ y > 0
         /\ x * y = 0 <=> x = 0 \/ y = 0
  OBVIOUS

LEMMA Cancelled ==
  ASSUME NEW x \in Int, NEW y \in Int, NEW k \in Nat, k > 0
  PROVE  /\ k * x < k * y <=> x < y
         /\ k * x = k * y <=> x = y
         /\ k * x > 0 <=> x > 0
  OBVIOUS

\* The estimate at completion of e earned for c, with a budget of b: the work
\* left at the rate so far, on top of the cost so far.
LEMMA EstimateSum ==
  ASSUME NEW b \in Nat, NEW e \in Nat, NEW c \in Nat, NEW w \in Nat
  PROVE  c * (1 * w) * (e * 1) + (b * w - e * 1) * (w * c) * 1 = (w * w) * (c * b)
  OBVIOUS

EstimateValue(ac, left, cpi) ==
    Present(ac.num * left.den * cpi.num + left.num * cpi.den * ac.den, ac.den * left.den * cpi.num)

\* EstimateAtCompletion, by what is known.
LEMMA EstimateCases ==
  ASSUME NEW ac, NEW bac, NEW ev, NEW cpi, NEW left, left = Difference(bac, ev),
         Is(ac), Is(left)
  PROVE  LET eac == EstimateAtCompletion(ac, bac, ev, cpi)
         IN  /\ ~ Is(cpi) => eac = NA(cpi.why)
             /\ Is(cpi) /\ cpi.num = 0 => eac = NA("zero cpi")
             /\ Is(cpi) /\ cpi.num # 0 => eac = EstimateValue(ac, left, cpi)
  BY DEF EstimateAtCompletion, EstimateValue

\* The estimate for a budget of b, with e earned and c spent.
EstimateGiven(b, e, c, w) ==
    EstimateAtCompletion(Present(c, 1), Present(b, 1), Present(e, w),
                         Ratio(Present(e, w), Present(c, 1), "zero cost"))

LEMMA EstimateOf ==
  ASSUME NEW b \in Nat, NEW e \in Nat, NEW c \in Nat, NEW w \in Nat
  PROVE  /\ Is(EstimateGiven(b, e, c, w)) <=> c > 0 /\ e > 0
         /\ c > 0 /\ e > 0 =>
              EstimateGiven(b, e, c, w) = Present((w * w) * (c * b), w * e)
  <1> DEFINE bac == Present(b, 1)
  <1> DEFINE ev == Present(e, w)
  <1> DEFINE ac == Present(c, 1)
  <1> DEFINE cpi == Ratio(ev, ac, "zero cost")
  <1> DEFINE left == Difference(bac, ev)
  <1> DEFINE eac == EstimateAtCompletion(ac, bac, ev, cpi)
  <1>1. /\ Is(ac) /\ ac.num = c /\ ac.den = 1
        /\ Is(bac) /\ bac.num = b /\ bac.den = 1
        /\ Is(ev) /\ ev.num = e /\ ev.den = w
    BY MetricFacts
  <1> HIDE DEF bac, ev, ac, cpi, left, eac
  <1>2. left = Present(b * w - e * 1, 1 * w)
    BY <1>1 DEF Difference, left
  <1>3. Is(left) /\ left.num = b * w - e * 1 /\ left.den = 1 * w
    BY <1>2, MetricFacts
  <1>4. CASE c = 0
    <2>1. cpi = NA("zero cost")
      BY <1>1, <1>4, RatioOfKnown DEF cpi
    <2>2. ~ Is(cpi) /\ cpi.why = "zero cost"
      BY <2>1, NotAvailable
    <2>3. Is(ac) /\ Is(left)
      BY <1>1, <1>3
    <2>4. eac = NA(cpi.why)
      BY <2>2, <2>3, EstimateCases DEF left, eac
    <2>6. ~ Is(eac)
      BY <2>2, <2>4, NotAvailable
    <2>5. /\ Is(eac) <=> c > 0 /\ e > 0
          /\ c > 0 /\ e > 0 => eac = Present((w * w) * (c * b), w * e)
      BY <1>4, <2>6
    <2> QED BY <2>5 DEF eac, ac, bac, ev, cpi, EstimateGiven
  <1>5. CASE c # 0
    <2>1. cpi = Present(e * 1, w * c)
      BY <1>1, <1>5, RatioOfKnown DEF cpi
    <2>2. Is(cpi) /\ cpi.num = e * 1 /\ cpi.den = w * c
      BY <2>1, MetricFacts
    <2>3. CASE e = 0
      <3>1. cpi.num = 0
        BY <2>2, <2>3
      <3>2. eac = NA("zero cpi")
        BY <3>1, <2>2, <1>1, <1>3, EstimateCases DEF left, eac
      <3>3. ~ Is(eac)
        BY <3>2, NotAvailable
      <3>4. /\ Is(eac) <=> c > 0 /\ e > 0
            /\ c > 0 /\ e > 0 => eac = Present((w * w) * (c * b), w * e)
        BY <2>3, <3>3
      <3> QED BY <3>4 DEF eac, ac, bac, ev, cpi, EstimateGiven
    <2>4. CASE e # 0
      <3>1. cpi.num # 0
        BY <2>2, <2>4
      <3>2. eac = EstimateValue(ac, left, cpi)
        <4>1. Is(ac) /\ Is(left) /\ Is(cpi)
          BY <1>1, <1>3, <2>2
        <4> QED BY <3>1, <4>1, EstimateCases DEF left, eac
      <3>3. eac = Present(c * (1 * w) * (e * 1) + (b * w - e * 1) * (w * c) * 1,
                          1 * (1 * w) * (e * 1))
        BY <3>2, <2>2, <1>1, <1>3 DEF EstimateValue
      <3>4. 1 * (1 * w) * (e * 1) = w * e
        OBVIOUS
      <3>5. eac = Present((w * w) * (c * b), w * e)
        BY <3>3, <3>4, EstimateSum
      <3>6. Is(eac)
        BY <3>5, MetricFacts
      <3>7. /\ Is(eac) <=> c > 0 /\ e > 0
            /\ c > 0 /\ e > 0 => eac = Present((w * w) * (c * b), w * e)
        BY <1>5, <2>4, <3>5, <3>6
      <3> QED BY <3>7 DEF eac, ac, bac, ev, cpi, EstimateGiven
    <2> QED BY <2>3, <2>4
  <1> QED BY <1>4, <1>5

-----------------------------------------------------------------------------
(* The summary of a day. *)

\* With a baseline and a snapshot.
LEMMA SummaryKnown ==
  ASSUME MetricsTypeOK, NEW day \in Nat, DOMAIN baseline # {}, SnapshotDays(day) # {}
  PROVE  LET s == Summary(day)
             figures == captured[Latest(SnapshotDays(day))]
             e == budget * figures[2]
             c == figures[1]
         IN  /\ c \in Nat /\ e \in Nat
             /\ s.bac = Present(budget, 1) /\ s.ev = Present(e, Whole) /\ s.ac = Present(c, 1)
             /\ Is(s.eac) <=> c > 0 /\ e > 0
             /\ c > 0 /\ e > 0 => s.eac = Present((Whole * Whole) * (c * budget), Whole * e)
             /\ s.vac = Difference(s.bac, s.eac)
  <1> DEFINE s == Summary(day)
  <1> DEFINE figures == captured[Latest(SnapshotDays(day))]
  <1> DEFINE e == budget * figures[2]
  <1> DEFINE c == figures[1]
  <1>1. figures[1] \in Nat /\ figures[2] \in Nat /\ budget \in Nat /\ Whole \in Nat
    BY SnapshotDaysFacts, Amounts
  <1>2. c \in Nat /\ e \in Nat
    BY <1>1
  <1>3. /\ s.bac = Present(budget, 1) /\ s.ac = Present(c, 1)
        /\ s.vac = Difference(s.bac, s.eac)
        /\ s.eac = EstimateAtCompletion(s.ac, s.bac, s.ev, s.cpi)
        /\ s.cpi = Ratio(s.ev, s.ac, "zero cost")
    BY DEF Summary
  <1>4. s.ev = Present(e, Whole)
    BY MetricFacts DEF Summary
  <1> HIDE DEF s, figures, e, c
  <1>5. /\ Is(s.eac) <=> c > 0 /\ e > 0
        /\ c > 0 /\ e > 0 => s.eac = Present((Whole * Whole) * (c * budget), Whole * e)
    <2>1. s.eac = EstimateGiven(budget, e, c, Whole)
      BY <1>3, <1>4 DEF EstimateGiven
    <2> QED BY <1>1, <1>2, <2>1, EstimateOf
  <1> QED BY <1>2, <1>3, <1>4, <1>5 DEF s, e, c, figures

\* Without one of the two nothing is earned, nor estimated.
LEMMA SummaryUnknown ==
  ASSUME NEW day, DOMAIN baseline = {} \/ SnapshotDays(day) = {}
  PROVE  LET s == Summary(day) IN ~ Is(s.ev) /\ ~ Is(s.eac)
  <1> DEFINE s == Summary(day)
  <1>1. s.eac = EstimateAtCompletion(s.ac, s.bac, s.ev, s.cpi)
    BY DEF Summary
  <1>2. CASE DOMAIN baseline = {}
    <2>1. s.bac = NA("no baseline")
      BY <1>2 DEF Summary
    <2>2. s.ev = NA("no baseline")
      BY <1>2, NotAvailable DEF Summary
    <2>3. ~ Is(Difference(s.bac, s.ev))
      BY <2>1, <2>2, NotAvailable, MetricFacts DEF Difference, Missing
    <2> HIDE DEF s
    <2>5. ~ Is(s.cpi)
      <3>1. s.cpi = Ratio(s.ev, s.ac, "zero cost")
        BY DEF Summary, s
      <3> QED BY <2>2, <3>1, NotAvailable, RatioOfUnknown
    <2>4. ~ Is(s.eac)
      <3>1. CASE Is(s.ac)
        BY <1>1, <2>3, <3>1, MetricFacts DEF EstimateAtCompletion
      <3>2. CASE ~ Is(s.ac)
        BY <1>1, <2>5, <3>2 DEF EstimateAtCompletion, Is, NA
      <3> QED BY <3>1, <3>2
    <2> QED BY <2>2, <2>4, NotAvailable DEF s
  <1>3. CASE DOMAIN baseline # {} /\ SnapshotDays(day) = {}
    <2>1. s.ac = NA("no snapshot")
      BY <1>3 DEF Summary
    <2>2. s.ev = NA("no snapshot")
      BY <1>3, MetricFacts DEF Summary
    <2> HIDE DEF s
    <2>3. ~ Is(s.eac)
      BY <1>1, <2>1, NotAvailable, MetricFacts DEF EstimateAtCompletion
    <2> QED BY <2>2, <2>3, NotAvailable DEF s
  <1> QED BY <1>2, <1>3

-----------------------------------------------------------------------------
(* The signals. *)

LEMMA Scaled ==
  ASSUME NEW b \in Nat, NEW w \in Nat, NEW e \in Nat, NEW g \in Int, NEW n \in Nat, NEW d \in Nat,
         b > 0, w > 0
  PROVE  /\ (w * b) * g * 1 * d > n * b * (w * e) <=> d * g > n * e
         /\ (w * b) * g * 1 * d = n * b * (w * e) <=> d * g = n * e
  <1> DEFINE k == w * b
  <1>1. k \in Nat /\ k > 0
    BY Products
  <1>2. (w * b) * g * 1 * d = k * (d * g) /\ n * b * (w * e) = k * (n * e)
    OBVIOUS
  <1>3. d * g \in Int /\ n * e \in Int
    OBVIOUS
  <1> HIDE DEF k
  <1>4. /\ k * (d * g) > k * (n * e) <=> d * g > n * e
        /\ k * (d * g) = k * (n * e) <=> d * g = n * e
    BY <1>1, <1>3, Cancelled
  <1> QED BY <1>2, <1>4

LEMMA GapTimes ==
  ASSUME NEW k \in Nat, NEW e \in Nat, NEW x \in Nat, k > 0
  PROVE  LET gap == IF e > x THEN e - x ELSE x - e
         IN  /\ gap \in Nat
             /\ (IF k * (e - x) < 0 THEN - (k * (e - x)) ELSE k * (e - x)) = k * gap
  <1>1. CASE e > x
    <2>1. e - x \in Nat /\ k * (e - x) \in Nat
      BY <1>1
    <2> QED BY <1>1, <2>1
  <1>2. CASE ~ (e > x)
    <2>1. x - e \in Nat /\ k * (e - x) = - (k * (x - e)) /\ k * (x - e) \in Nat
      BY <1>2
    <2> QED BY <1>2, <2>1
  <1> QED BY <1>1, <1>2

\* The signal of a forecast that is off by gap.
LEMMA ForecastOf ==
  ASSUME NEW s, NEW b \in Nat, NEW w \in Nat, NEW e \in Nat, NEW x \in Nat,
         b > 0, w > 0, e > 0, Is(s.vac), s.bac.num = b, s.bac.den = 1,
         s.vac.num = (w * b) * (e - x), s.vac.den = w * e
  PROVE  LET gap == IF e > x THEN e - x ELSE x - e
         IN  /\ 10 * gap > e => "none" \notin ForecastSignals(s)
             /\ 10 * gap < e => ForecastSignals(s) = {"none"}
             /\ 4 * gap > e => ForecastSignals(s) = {"critical"}
  <1> DEFINE gap == IF e > x THEN e - x ELSE x - e
  <1> DEFINE size == IF s.vac.num < 0 THEN - s.vac.num ELSE s.vac.num
  <1> DEFINE above(n, d) == size * s.bac.den * d > n * s.bac.num * s.vac.den
  <1> DEFINE at(n, d) == size * s.bac.den * d = n * s.bac.num * s.vac.den
  <1>1. w * b \in Nat /\ w * b > 0
    BY Products
  <1>2. gap \in Nat /\ size = (w * b) * gap
    BY <1>1, GapTimes
  <1>3. ASSUME NEW n \in Nat, NEW d \in Nat
        PROVE  (above(n, d) <=> d * gap > n * e) /\ (at(n, d) <=> d * gap = n * e)
    BY <1>2, Scaled
  <1>4. ForecastSignals(s) =
           (IF above(1, 4) \/ at(1, 4) THEN {"critical"} ELSE {})
             \cup (IF (above(1, 10) /\ ~ above(1, 4)) \/ at(1, 10) THEN {"warning"} ELSE {})
             \cup (IF ~ above(1, 10) THEN {"none"} ELSE {})
    BY DEF ForecastSignals
  <1>5. /\ above(1, 4) <=> 4 * gap > 1 * e
        /\ at(1, 4) <=> 4 * gap = 1 * e
        /\ above(1, 10) <=> 10 * gap > 1 * e
        /\ at(1, 10) <=> 10 * gap = 1 * e
    BY <1>3
  <1> HIDE DEF above, at, gap
  <1>6. 10 * gap > e => "none" \notin ForecastSignals(s)
    BY <1>4, <1>5
  <1>7. 10 * gap < e => ForecastSignals(s) = {"none"}
    BY <1>2, <1>4, <1>5
  <1>8. 4 * gap > e => ForecastSignals(s) = {"critical"}
    BY <1>2, <1>4, <1>5
  <1> QED BY <1>6, <1>7, <1>8 DEF gap

\* The deviation of an estimate from the budget.
Deviation(b, e, c, w) == Difference(Present(b, 1), Present((w * w) * (c * b), w * e))

LEMMA DeviationOf ==
  ASSUME NEW b \in Nat, NEW e \in Nat, NEW c \in Nat, NEW w \in Nat
  PROVE  Deviation(b, e, c, w) = Present((w * b) * (e - w * c), w * e)
  <1>1. Deviation(b, e, c, w) = Present(b * (w * e) - (w * w) * (c * b) * 1, 1 * (w * e))
    BY MetricFacts DEF Deviation, Difference
  <1>2. /\ b * (w * e) - (w * w) * (c * b) * 1 = (w * b) * (e - w * c)
        /\ 1 * (w * e) = w * e
    OBVIOUS
  <1> QED BY <1>1, <1>2

\* The cost ratio of a captured day.
CostRatio(d) == Present(budget * captured[d][2], Whole * captured[d][1])

SpentDays == {d \in DOMAIN captured : captured[d][1] > 0}

LEMMA CostRatioOf ==
  ASSUME MetricsTypeOK, NEW d \in DOMAIN captured
  PROVE  /\ Is(RatioOn(d, "ac")) <=> DOMAIN baseline # {} /\ captured[d][1] > 0
         /\ Is(RatioOn(d, "ac")) => RatioOn(d, "ac") = CostRatio(d)
  <1> DEFINE s == Summary(d)
  <1>1. d \in Nat /\ captured[d][1] \in Nat /\ captured[d][2] \in Nat /\ budget \in Nat /\ Whole \in Nat
    BY Amounts
  <1>2. SnapshotDays(d) # {} /\ Latest(SnapshotDays(d)) = d
    BY <1>1, SnapshotDaysFacts
  <1>3. RatioOn(d, "ac") = Ratio(s.ev, s.ac, "zero")
    BY DEF RatioOn
  <1>4. CASE DOMAIN baseline = {}
    <2>1. ~ Is(s.ev)
      BY <1>4, SummaryUnknown
    <2> QED BY <1>3, <1>4, <2>1, RatioOfUnknown
  <1>5. CASE DOMAIN baseline # {}
    <2>1. /\ s.ev = Present(budget * captured[d][2], Whole)
          /\ s.ac = Present(captured[d][1], 1)
      BY <1>1, <1>2, <1>5, SummaryKnown
    <2> HIDE DEF s
    <2>2. /\ Is(s.ev) /\ s.ev.num = budget * captured[d][2] /\ s.ev.den = Whole
          /\ Is(s.ac) /\ s.ac.num = captured[d][1] /\ s.ac.den = 1
      BY <2>1, MetricFacts
    <2>3. CASE captured[d][1] = 0
      <3>1. RatioOn(d, "ac") = NA("zero")
        BY <1>3, <2>2, <2>3, RatioOfKnown
      <3>2. ~ Is(RatioOn(d, "ac"))
        BY <3>1, NotAvailable
      <3>3. ~ (captured[d][1] > 0)
        BY <2>3
      <3> QED BY <3>2, <3>3
    <2>4. CASE captured[d][1] # 0
      <3>1. RatioOn(d, "ac") = Present(s.ev.num * s.ac.den, s.ev.den * s.ac.num)
        BY <1>3, <2>2, <2>4, RatioOfKnown
      <3>2. s.ev.num * s.ac.den = budget * captured[d][2] /\ s.ev.den * s.ac.num = Whole * captured[d][1]
        BY <1>1, <2>2
      <3>3. RatioOn(d, "ac") = CostRatio(d)
        BY <3>1, <3>2 DEF CostRatio
      <3> QED BY <3>3, <2>4, <1>1, <1>5, MetricFacts DEF CostRatio
    <2> QED BY <1>1, <2>3, <2>4
  <1> QED BY <1>4, <1>5

\* When there is one at all, the trend is of the days with a cost.
LEMMA CostRatioDays ==
  ASSUME MetricsTypeOK
  PROVE  RatioDays("ac") = IF DOMAIN baseline = {} THEN {} ELSE SpentDays
  BY CostRatioOf DEF RatioDays, SpentDays

LEMMA ScaledRatios ==
  ASSUME NEW p \in Nat, NEW q \in Nat, NEW a \in Nat, NEW b \in Nat,
         NEW m \in Nat, NEW w \in Nat, w > 0
  PROVE  (m * p) * (w * b) < (m * q) * (w * a) <=> m > 0 /\ p * b < q * a
  <1>1. /\ (m * p) * (w * b) = (w * m) * (p * b)
        /\ (m * q) * (w * a) = (w * m) * (q * a)
        /\ p * b \in Nat /\ q * a \in Nat
    OBVIOUS
  <1>2. CASE m = 0
    BY <1>2
  <1>3. CASE m > 0
    <2>1. w * m \in Nat /\ w * m > 0
      BY <1>3, Products
    <2>2. (w * m) * (p * b) < (w * m) * (q * a) <=> p * b < q * a
      BY <1>1, <2>1, Cancelled
    <2> QED BY <1>1, <1>3, <2>2
  <1> QED BY <1>2, <1>3

\* A cost ratio is below another one as the progress for the cost is.
LEMMA CostRatioBelow ==
  ASSUME MetricsTypeOK, NEW d \in SpentDays, NEW f \in SpentDays
  PROVE  Less(CostRatio(d), CostRatio(f)) <=>
            budget > 0 /\ captured[d][2] * captured[f][1] < captured[f][2] * captured[d][1]
  <1>1. /\ captured[d][1] \in Nat /\ captured[d][2] \in Nat
        /\ captured[f][1] \in Nat /\ captured[f][2] \in Nat
        /\ budget \in Nat /\ Whole \in Nat /\ Whole > 0
    BY Amounts DEF SpentDays
  <1>2. Less(CostRatio(d), CostRatio(f)) <=>
           (budget * captured[d][2]) * (Whole * captured[f][1])
             < (budget * captured[f][2]) * (Whole * captured[d][1])
    BY DEF Less, CostRatio, Present
  <1> QED BY <1>1, <1>2, ScaledRatios

\* Two cost ratios are not each below the other.
LEMMA CostRatioOrder ==
  ASSUME MetricsTypeOK, NEW d \in SpentDays, NEW f \in SpentDays
  PROVE  ~ (Less(CostRatio(d), CostRatio(f)) /\ Less(CostRatio(f), CostRatio(d)))
  <1>1. /\ captured[d][1] \in Nat /\ captured[d][2] \in Nat
        /\ captured[f][1] \in Nat /\ captured[f][2] \in Nat
    BY Amounts DEF SpentDays
  <1>2. /\ captured[d][2] * captured[f][1] \in Nat
        /\ captured[f][2] * captured[d][1] \in Nat
    BY <1>1, Products
  <1> QED BY <1>2, CostRatioBelow

\* The trend by its two latest days.
LEMMA TrendCases ==
  ASSUME NEW days, days = RatioDays("ac"),
         NEW now, now = RatioOn(Latest(days), "ac"),
         NEW before, before = RatioOn(Latest(days \ {Latest(days)}), "ac"),
         ~ (Less(now, before) /\ Less(before, now))
  PROVE  TrendSignal("ac") \in {"critical", "warning"} <=>
            days # {} /\ days \ {Latest(days)} # {} /\ Less(now, before)
  BY DEF TrendSignal

LEMMA SpentDaysFacts ==
  ASSUME MetricsTypeOK, SpentDays # {}
  PROVE  /\ Latest(SpentDays) \in SpentDays
         /\ SpentDays \ {Latest(SpentDays)} # {} =>
              Latest(SpentDays \ {Latest(SpentDays)}) \in SpentDays
  <1>1. SpentDays \in SUBSET (0 .. LastDay)
    BY Amounts DEF SpentDays
  <1>2. Latest(SpentDays) \in SpentDays
    BY <1>1, LatestFacts
  <1>3. SpentDays \ {Latest(SpentDays)} \in SUBSET (0 .. LastDay)
    BY <1>1
  <1> QED BY <1>2, <1>3, LatestFacts

\* The cost trend is down as progress for the cost is.
LEMMA CostTrend ==
  ASSUME MetricsTypeOK
  PROVE  TrendSignal("ac") \in {"critical", "warning"} <=>
            LET last == captured[Latest(SpentDays)]
                before == captured[Latest(SpentDays \ {Latest(SpentDays)})]
            IN  /\ DOMAIN baseline # {} /\ budget > 0
                /\ SpentDays # {} /\ SpentDays # {Latest(SpentDays)}
                /\ last[2] * before[1] < before[2] * last[1]
  <1> DEFINE days == RatioDays("ac")
  <1> DEFINE earlier == SpentDays \ {Latest(SpentDays)}
  <1>1. days = IF DOMAIN baseline = {} THEN {} ELSE SpentDays
    BY CostRatioDays
  <1>2. CASE days = {}
    <2>1. ~ (TrendSignal("ac") \in {"critical", "warning"})
      BY <1>2 DEF TrendSignal
    <2> QED BY <1>1, <1>2, <2>1
  <1>3. CASE days # {} /\ earlier = {}
    <2>1. days = SpentDays /\ SpentDays # {}
      BY <1>1, <1>3
    <2>2. ~ (TrendSignal("ac") \in {"critical", "warning"})
      BY <1>3, <2>1 DEF TrendSignal
    <2>3. SpentDays = {Latest(SpentDays)}
      BY <1>3, <2>1
    <2> QED BY <2>2, <2>3
  <1>4. CASE days # {} /\ earlier # {}
    <2>1. days = SpentDays /\ SpentDays # {} /\ DOMAIN baseline # {}
      BY <1>1, <1>4
    <2> DEFINE n == Latest(SpentDays)
    <2> DEFINE f == Latest(earlier)
    <2>2. n \in SpentDays /\ f \in SpentDays
      BY <1>4, <2>1, SpentDaysFacts
    <2>3. SpentDays # {n}
      BY <1>4
    <2>4. RatioOn(n, "ac") = CostRatio(n) /\ RatioOn(f, "ac") = CostRatio(f)
      BY <2>1, <2>2, CostRatioOf DEF SpentDays
    <2>5. ~ (Less(RatioOn(n, "ac"), RatioOn(f, "ac")) /\ Less(RatioOn(f, "ac"), RatioOn(n, "ac")))
      BY <2>2, <2>4, CostRatioOrder
    <2>6. TrendSignal("ac") \in {"critical", "warning"} <=> Less(RatioOn(n, "ac"), RatioOn(f, "ac"))
      BY <1>4, <2>1, <2>5, TrendCases
    <2>7. Less(RatioOn(n, "ac"), RatioOn(f, "ac")) <=>
             budget > 0 /\ captured[n][2] * captured[f][1] < captured[f][2] * captured[n][1]
      BY <2>2, <2>4, CostRatioBelow
    <2> QED BY <2>1, <2>3, <2>6, <2>7
  <1> QED BY <1>2, <1>3, <1>4

\* The estimate and the forecast signal of a day.
LEMMA DayFollows ==
  ASSUME MetricsTypeOK, NEW day \in 0 .. today
  PROVE  LET s == Summary(day)
             days == SnapshotDays(day)
             cost == captured[Latest(days)][1]
             earned == budget * captured[Latest(days)][2]
             gap == IF earned > Whole * cost THEN earned - Whole * cost ELSE Whole * cost - earned
         IN  /\ Is(s.eac) <=> DOMAIN baseline # {} /\ days # {} /\ cost > 0 /\ earned > 0
             /\ Is(s.eac) =>
                  /\ s.eac.num * earned = Whole * budget * cost * s.eac.den
                  /\ 10 * gap > earned => "none" \notin ForecastSignals(s)
                  /\ 10 * gap < earned => ForecastSignals(s) = {"none"}
                  /\ 4 * gap > earned => ForecastSignals(s) = {"critical"}
  <1> DEFINE s == Summary(day)
  <1> DEFINE days == SnapshotDays(day)
  <1> DEFINE cost == captured[Latest(days)][1]
  <1> DEFINE earned == budget * captured[Latest(days)][2]
  <1> DEFINE gap == IF earned > Whole * cost THEN earned - Whole * cost ELSE Whole * cost - earned
  <1>1. day \in Nat /\ budget \in Nat /\ Whole \in Nat /\ Whole > 0
    BY Amounts
  <1>2. CASE DOMAIN baseline = {} \/ days = {}
    <2>1. ~ Is(s.eac)
      BY <1>2, SummaryUnknown
    <2> QED BY <1>2, <2>1
  <1>3. CASE DOMAIN baseline # {} /\ days # {}
    <2>1. /\ cost \in Nat /\ earned \in Nat
          /\ s.bac = Present(budget, 1)
          /\ Is(s.eac) <=> cost > 0 /\ earned > 0
          /\ cost > 0 /\ earned > 0 =>
                s.eac = Present((Whole * Whole) * (cost * budget), Whole * earned)
          /\ s.vac = Difference(s.bac, s.eac)
      BY <1>1, <1>3, SummaryKnown
    <2>2. earned > 0 => budget > 0
      <3>1. captured[Latest(days)][2] \in Nat
        BY <1>1, <1>3, Amounts, SnapshotDaysFacts
      <3> QED BY <1>1, <3>1, Products
    <2> HIDE DEF s, cost, earned
    <2>3. ASSUME Is(s.eac)
          PROVE  /\ s.eac.num * earned = Whole * budget * cost * s.eac.den
                 /\ 10 * gap > earned => "none" \notin ForecastSignals(s)
                 /\ 10 * gap < earned => ForecastSignals(s) = {"none"}
                 /\ 4 * gap > earned => ForecastSignals(s) = {"critical"}
      <3>1. /\ earned > 0 /\ budget > 0
            /\ s.eac = Present((Whole * Whole) * (cost * budget), Whole * earned)
        BY <2>1, <2>2, <2>3
      <3>2. s.eac.num = (Whole * Whole) * (cost * budget) /\ s.eac.den = Whole * earned
        BY <3>1, MetricFacts
      <3>3. s.eac.num * earned = Whole * budget * cost * s.eac.den
        BY <1>1, <2>1, <3>2
      <3>4. /\ s.bac.num = budget /\ s.bac.den = 1 /\ Is(s.vac)
            /\ s.vac.num = (Whole * budget) * (earned - Whole * cost)
            /\ s.vac.den = Whole * earned
        <4>1. s.vac = Deviation(budget, earned, cost, Whole)
          BY <2>1, <3>1 DEF Deviation
        <4>2. s.vac = Present((Whole * budget) * (earned - Whole * cost), Whole * earned)
          <5>1. budget \in Nat /\ earned \in Nat /\ cost \in Nat /\ Whole \in Nat
            BY <1>1, <2>1
          <5>2. \A b, e, c, w \in Nat : Deviation(b, e, c, w) = Present((w * b) * (e - w * c), w * e)
            BY DeviationOf
          <5>3. Deviation(budget, earned, cost, Whole)
                  = Present((Whole * budget) * (earned - Whole * cost), Whole * earned)
            BY ONLY <5>1, <5>2
          <5> QED BY <4>1, <5>3
        <4> QED BY <2>1, <4>2, MetricFacts
      <3>5. Whole * cost \in Nat
        BY <1>1, <2>1, Products
      <3>6. /\ 10 * gap > earned => "none" \notin ForecastSignals(s)
            /\ 10 * gap < earned => ForecastSignals(s) = {"none"}
            /\ 4 * gap > earned => ForecastSignals(s) = {"critical"}
        BY <1>1, <2>1, <3>1, <3>4, <3>5, ForecastOf
      <3> QED BY <3>3, <3>6
    <2> QED BY <1>3, <2>1, <2>3 DEF s, cost, earned
  <1> QED BY <1>2, <1>3

LEMMA MetricsFollow == MetricsTypeOK => SignalsFollowTheFigures
  <1> SUFFICES ASSUME MetricsTypeOK, NEW day \in 0 .. today
               PROVE  LET s == Summary(day)
                          days == SnapshotDays(day)
                          cost == captured[Latest(days)][1]
                          earned == budget * captured[Latest(days)][2]
                          gap == IF earned > Whole * cost THEN earned - Whole * cost
                                                          ELSE Whole * cost - earned
                      IN  /\ Is(s.eac) <=> DOMAIN baseline # {} /\ days # {} /\ cost > 0 /\ earned > 0
                          /\ Is(s.eac) =>
                               /\ s.eac.num * earned = Whole * budget * cost * s.eac.den
                               /\ 10 * gap > earned => "none" \notin ForecastSignals(s)
                               /\ 10 * gap < earned => ForecastSignals(s) = {"none"}
                               /\ 4 * gap > earned => ForecastSignals(s) = {"critical"}
    BY CostTrend DEF SignalsFollowTheFigures, SpentDays
  <1> QED BY DayFollows

LEMMA MetricsStepTypeOK == MetricsTypeOK /\ [MetricsNext]_metricsVars => MetricsTypeOK'
  <1> SUFFICES ASSUME MetricsTypeOK, [MetricsNext]_metricsVars PROVE MetricsTypeOK'
    OBVIOUS
  <1> USE DEF MetricsTypeOK
  <1>1. CASE PassDay
    BY <1>1, LastDayAssumption DEF PassDay
  <1>2. CASE AuthorBaseline
    <2>1. PICK dates \in (SUBSET PeriodDays) \ {{}} : baseline' \in [dates -> PlannedValues]
      BY <1>2 DEF AuthorBaseline
    <2> QED BY <1>2, <2>1 DEF AuthorBaseline
  <1>3. CASE CaptureFigures
    <2>1. PICK f \in Figures :
             captured' = [d \in DOMAIN captured \cup {today} |-> IF d = today THEN f ELSE captured[d]]
      BY <1>3 DEF CaptureFigures
    <2>2. today \in Nat
      BY LastDayAssumption
    <2> QED BY <1>3, <2>1, <2>2 DEF CaptureFigures
  <1>4. CASE UNCHANGED metricsVars
    BY <1>4 DEF metricsVars
  <1> QED BY <1>1, <1>2, <1>3, <1>4 DEF MetricsNext

\* The empty sequence, which is where both functions begin.
LEMMA MetricsInitTypeOK == MetricsInit => MetricsTypeOK
  BY LastDayAssumption DEF MetricsInit, MetricsTypeOK

LEMMA MetricsInvariant == MetricsSpec => []MetricsTypeOK
  BY MetricsInitTypeOK, MetricsStepTypeOK, PTL DEF MetricsSpec

\* Whatever is captured and however often the baseline is authored anew, the
\* estimate, the forecast signal and the cost trend say what the stored
\* figures say: for any amounts, any calendar and any whole.
THEOREM SignalsFollow == MetricsSpec => []SignalsFollowTheFigures
  BY MetricsInvariant, MetricsFollow, PTL

-----------------------------------------------------------------------------
(* All parts in one behaviour. *)

Parts == {"limiter", "access", "advice", "metrics", "deployment"}

PlatformInv ==
    /\ part \in Parts
    /\ part = "limiter" => LimiterInv
    /\ part = "access" => AccessInv
    /\ part = "advice" => BoundedAdviceInv
    /\ part = "metrics" => MetricsTypeOK
    /\ part = "deployment" => InstallationInv

LEMMA PlatformInitInv == PlatformInit => PlatformInv
  BY LimiterInitInv, AccessInitInv, BoundedInitInv, MetricsInitTypeOK, InstallationInitInv
     DEF PlatformInit, PlatformInv, Parts

LEMMA PlatformStepInv == PlatformInv /\ [PlatformNext]_platformVars => PlatformInv'
  <1> SUFFICES ASSUME PlatformInv, [PlatformNext]_platformVars PROVE PlatformInv'
    OBVIOUS
  <1>1. /\ part' = part
        /\ part = "limiter" => [LimiterNext]_limiterVars
        /\ part = "access" => [AccessNext]_accessVars
        /\ part = "advice" => [AdviceNext]_adviceVars
        /\ part = "metrics" => [MetricsNext]_metricsVars
        /\ part = "deployment" => [DeploymentNext]_deploymentVars
    <2>1. CASE PlatformNext
      BY <2>1 DEF PlatformNext, LimiterPart, AccessPart, AdvicePart, MetricsPart, DeploymentPart
    <2>2. CASE UNCHANGED platformVars
      BY <2>2 DEF platformVars
    <2> QED BY <2>1, <2>2
  <1>2. /\ part = "limiter" => LimiterInv'
        /\ part = "access" => AccessInv'
        /\ part = "advice" => BoundedAdviceInv'
        /\ part = "metrics" => MetricsTypeOK'
        /\ part = "deployment" => InstallationInv'
    BY <1>1, LimiterStepInv, AccessStepInv, BoundedStepInv, MetricsStepTypeOK, InstallationStepInv
       DEF PlatformInv
  <1> QED BY <1>1, <1>2 DEF PlatformInv

\* What LimiterTypes, AccessTypes, AdviceTypes, MetricsInvariant and
\* RowsKeepTheirShape say of each part holds of the server they are parts of:
\* whichever runs, every row it writes keeps its shape and its references.
THEOREM PlatformTypes == PlatformSpec => []PlatformTypeOK
  <1>1. PlatformInv => PlatformTypeOK
    <2>1. /\ LimiterInv => LimiterTypeOK
          /\ AccessInv => AccessTypeOK
          /\ BoundedAdviceInv => AdviceTypeOK
          /\ InstallationInv => DeploymentTypeOK
      BY BoundedMeansTyped, InstallationTypes DEF LimiterInv, AccessInv
    <2>2. ASSUME PlatformInv PROVE PlatformTypeOK
      BY <2>1, <2>2 DEF PlatformInv, Parts, PlatformTypeOK
    <2> QED BY <2>2
  <1> QED BY <1>1, PlatformInitInv, PlatformStepInv, PTL DEF PlatformSpec
==============================================================================

-------------------------------- MODULE Catalogue --------------------------------
(***************************************************************************)
(* Projects, services, SBOM rows and risk acceptances, and the requests     *)
(* that create, rename and delete them.  Every request checks with SELECTs  *)
(* first and writes in one transaction later; only keys, foreign keys and   *)
(* unique indexes hold when requests interleave.  A write that would wait   *)
(* for another transaction's lock is a step that is taken later.            *)
(***************************************************************************)
EXTENDS Naturals, FiniteSets

CONSTANTS
  Projects, Services, Sboms,  \* bound: ids that may be handed out
  Names, SlugOf,              \* project names, and the slug of each
  ServiceNames, Documents,
  NoService,                  \* service_id NULL
  Requests                    \* requests that may be in progress at a time

ASSUME CatalogueAssumption ==
  /\ NoService \notin Services /\ NoService \notin ServiceNames
  /\ DOMAIN SlugOf = Names
  /\ Projects # {} /\ Names # {} /\ ServiceNames # {} /\ Documents # {}

VARIABLES
  project,    \* project[p]: the row of projects
  service,    \* service[x]: the row of services
  sbom,       \* sbom[b]: the row of sboms
  open,       \* the SBOMs in which the vulnerability under decision is open
  accepted,   \* risk_acceptances of that vulnerability: project and service
  req         \* req[q]: what request q has read and is about to write

rows == <<project, service, sbom, open, accepted>>
vars == <<rows, req>>

\* Ids are uuids: one that was deleted never comes back.
NewProject == [state |-> "new", name |-> CHOOSE n \in Names : TRUE]
NewService == [state |-> "new", project |-> CHOOSE p \in Projects : TRUE,
               name |-> CHOOSE n \in ServiceNames : TRUE]
NewSbom    == [state |-> "new", project |-> CHOOSE p \in Projects : TRUE,
               service |-> NoService, doc |-> CHOOSE d \in Documents : TRUE]
\* Nothing looks at the other columns of a row that is not there.
Deleted(row) == [row EXCEPT !.state = "gone"]

Live(table)  == {i \in DOMAIN table : table[i].state = "live"}
Fresh(table) == {i \in DOMAIN table : table[i].state = "new"}

Idle == [op |-> "idle", kids |-> {}, before |-> {}]

\* A request: its operation and next step, its arguments, what it has loaded.
Request ==
  [op : {"idle"}, kids : {{}}, before : {{}}]
    \cup [op : {"create"}, name : Names]
    \cup [op : {"rename"}, p : Projects, name : Names]
    \cup [op : {"load", "load services", "load theirs", "drop project"}, p : Projects,
          kids : SUBSET Sboms, services : SUBSET Services]
    \cup [op : {"count", "counted", "drop service"}, x : Services,
          kids : SUBSET Sboms, before : SUBSET Sboms]
    \cup [op : {"dedup", "find service", "store"}, p : Projects, doc : Documents,
          name : ServiceNames \cup {NoService}, x : Services \cup {NoService}]
    \cup [op : {"open?", "decided?", "accept"}, p : Projects, x : Services \cup {NoService}]

TypeOK ==
  /\ project \in [Projects -> [state : {"new", "live", "gone"}, name : Names]]
  /\ service \in [Services -> [state : {"new", "live", "gone"}, project : Projects, name : ServiceNames]]
  /\ sbom \in [Sboms -> [state : {"new", "live", "gone"}, project : Projects,
                         service : Services \cup {NoService}, doc : Documents]]
  /\ open \subseteq Live(sbom)
  /\ accepted \subseteq [project : Projects, service : Services \cup {NoService}]
  /\ req \in [Requests -> Request]

Init ==
  /\ project = [p \in Projects |-> NewProject]
  /\ service = [x \in Services |-> NewService]
  /\ sbom = [b \in Sboms |-> NewSbom]
  /\ open = {} /\ accepted = {}
  /\ req = [q \in Requests |-> Idle]

\* A step of request q that only reads, and the end of a request.
Reads(q, r)  == req' = [req EXCEPT ![q] = r] /\ UNCHANGED rows
Begins(q, r) == req[q] = Idle /\ Reads(q, r)
Ends(q)      == req' = [req EXCEPT ![q] = Idle]
\* A check, a unique index or a foreign key refuses: rollback, 4xx or 500.
Refused(q)   == Ends(q) /\ UNCHANGED rows

---------------------------------------------------------------------------
(* Projects *)

Named(n) == {p \in Live(project) : project[p].name = n}

\* The unique indexes on name and on the generated slug.
NameUnused(p, n) == \A o \in Live(project) \ {p} : SlugOf[project[o].name] # SlugOf[n]
                                                  /\ project[o].name # n

BeginCreate(q, n) == Named(n) = {} /\ Begins(q, [op |-> "create", name |-> n])

Create(q) ==
  /\ req[q].op = "create"
  /\ \/ \E p \in Fresh(project) :
          /\ NameUnused(p, req[q].name)
          /\ project' = [project EXCEPT ![p] = [state |-> "live", name |-> req[q].name]]
          /\ Ends(q) /\ UNCHANGED <<service, sbom, open, accepted>>
     \/ \E p \in Fresh(project) : ~NameUnused(p, req[q].name) /\ Refused(q)

BeginRename(q, p, n) ==
  /\ p \in Live(project) /\ Named(n) \ {p} = {}
  /\ Begins(q, [op |-> "rename", p |-> p, name |-> n])

Rename(q) ==
  LET p == req[q].p IN
  /\ req[q].op = "rename"
  /\ IF p \in Live(project) /\ NameUnused(p, req[q].name)
     THEN /\ project' = [project EXCEPT ![p].name = req[q].name]
          /\ Ends(q) /\ UNCHANGED <<service, sbom, open, accepted>>
     ELSE Refused(q)

ServicesOf(p) == {x \in Live(service) : service[x].project = p}
SbomsOf(p)    == {b \in Live(sbom) : sbom[b].project = p}
SbomsAt(x)    == {b \in Live(sbom) : sbom[b].service = x}

BeginDropProject(q, p) ==
  /\ p \in Live(project)
  /\ Begins(q, [op |-> "load", p |-> p, kids |-> {}, services |-> {}])

\* What the ORM's delete cascades to is loaded by one SELECT after the other: the
\* project's SBOMs, its services, and the SBOMs of these.
Load(q) ==
  LET r == req[q] IN
  \/ /\ r.op = "load"
     /\ Reads(q, [op |-> "load services", p |-> r.p, kids |-> SbomsOf(r.p), services |-> {}])
  \/ /\ r.op = "load services"
     /\ Reads(q, [op |-> "load theirs", p |-> r.p, kids |-> r.kids, services |-> ServicesOf(r.p)])
  \/ /\ r.op = "load theirs"
     /\ Reads(q, [op |-> "drop project", p |-> r.p, services |-> r.services,
                  kids |-> r.kids \cup UNION {SbomsAt(x) : x \in r.services}])

\* A link that a scan has inserted since its SBOM was loaded makes its foreign key
\* refuse the delete of the SBOM.
ScannedSince(kids) == kids \cap Live(sbom) # {}

\* Just what was loaded is deleted; a row that came meanwhile makes a foreign key
\* refuse the whole delete.  Acceptances go by ON DELETE CASCADE.
DropProject(q) ==
  LET p == req[q].p IN
  /\ req[q].op = "drop project"
  /\ \/ /\ SbomsOf(p) \subseteq req[q].kids /\ ServicesOf(p) \subseteq req[q].services
        /\ project' = [project EXCEPT ![p] = Deleted(NewProject)]
        /\ service' = [x \in Services |-> IF x \in req[q].services THEN Deleted(NewService) ELSE service[x]]
        /\ sbom' = [b \in Sboms |-> IF b \in req[q].kids THEN Deleted(NewSbom) ELSE sbom[b]]
        /\ open' = open \ req[q].kids
        /\ accepted' = {a \in accepted : a.project # p}
        /\ Ends(q)
     \/ ~(SbomsOf(p) \subseteq req[q].kids /\ ServicesOf(p) \subseteq req[q].services) /\ Refused(q)
     \/ ScannedSince(req[q].kids) /\ Refused(q)

---------------------------------------------------------------------------
(* Services *)

BeginDropService(q, x) ==
  /\ x \in Live(service)
  /\ Begins(q, [op |-> "count", x |-> x, kids |-> {}, before |-> SbomsAt(x)])

\* Mutant: the count is not looked at.
CountUnheeded(q) ==
  /\ req[q].op = "count"
  /\ Reads(q, [req[q] EXCEPT !.op = "counted"])

\* Refused with 409 while the service has SBOMs.
Count(q) ==
  /\ req[q].op = "count"
  /\ IF SbomsAt(req[q].x) = {} THEN Reads(q, [req[q] EXCEPT !.op = "counted"]) ELSE Refused(q)

\* The cascade loads the SBOMs of the service once more.
LoadSboms(q) ==
  /\ req[q].op = "counted"
  /\ Reads(q, [op |-> "drop service", x |-> req[q].x, kids |-> SbomsAt(req[q].x),
               before |-> req[q].before])

DropService(q) ==
  LET x == req[q].x IN
  /\ req[q].op = "drop service"
  /\ \/ /\ SbomsAt(x) \subseteq req[q].kids
        /\ service' = [service EXCEPT ![x] = Deleted(NewService)]
        /\ sbom' = [b \in Sboms |-> IF b \in req[q].kids THEN Deleted(NewSbom) ELSE sbom[b]]
        /\ open' = open \ req[q].kids
        /\ accepted' = {a \in accepted : a.service # x}
        /\ Ends(q) /\ UNCHANGED project
     \/ ~(SbomsAt(x) \subseteq req[q].kids) /\ Refused(q)
     \/ ScannedSince(req[q].kids) /\ Refused(q)

---------------------------------------------------------------------------
(* SBOM uploads *)

\* By id or slug; over HTTP the service may be named, else the document names it.
BeginUpload(q, p, d, n) ==
  /\ p \in Live(project)
  /\ Begins(q, [op |-> "dedup", p |-> p, doc |-> d, name |-> n, x |-> NoService])

Copies(d) == {b \in Live(sbom) : sbom[b].doc = d}

\* A document that is stored, in whatever project, is answered as it is.
Dedup(q) ==
  /\ req[q].op = "dedup"
  /\ IF Copies(req[q].doc) # {} THEN Refused(q)
     ELSE Reads(q, [req[q] EXCEPT !.op = IF req[q].name = NoService THEN "store" ELSE "find service"])

\* Mutant: the service is looked up by its name alone.
ServicesNamedAnywhere(p, n) == {x \in Live(service) : p \in Projects /\ service[x].name = n}

ServicesNamed(p, n) == {x \in Live(service) : service[x].project = p /\ service[x].name = n}

FindService(q) ==
  LET found == ServicesNamed(req[q].p, req[q].name) IN
  /\ req[q].op = "find service"
  /\ Reads(q, [op |-> "store", p |-> req[q].p, doc |-> req[q].doc, name |-> req[q].name,
               x |-> IF found = {} THEN NoService ELSE CHOOSE x \in found : TRUE])

\* Mutant: no unique index on sha256.
NotStored(d) == d \in Documents

Unstored(d) == Copies(d) = {}

\* The transaction writes the service it did not find, then the SBOM: unique
\* indexes on (project, service name) and sha256, foreign keys on both parents.
Store(q) ==
  LET r == req[q]
      creates == r.name # NoService /\ r.x = NoService
      allowed == /\ r.p \in Live(project) /\ Unstored(r.doc)
                 /\ creates => ServicesNamed(r.p, r.name) = {}
                 /\ r.x # NoService => r.x \in Live(service)
      stored(b, x) == sbom' = [sbom EXCEPT ![b] =
                        [state |-> "live", project |-> r.p, service |-> x, doc |-> r.doc]]
  IN
  /\ r.op = "store"
  /\ \/ ~allowed /\ Refused(q)
     \/ /\ allowed /\ ~creates
        /\ \E b \in Fresh(sbom) : stored(b, r.x)
        /\ Ends(q) /\ UNCHANGED <<project, service, open, accepted>>
     \/ /\ allowed /\ creates
        /\ \E b \in Fresh(sbom), x \in Fresh(service) :
             /\ stored(b, x)
             /\ service' = [service EXCEPT ![x] = [state |-> "live", project |-> r.p, name |-> r.name]]
        /\ Ends(q) /\ UNCHANGED <<project, open, accepted>>

---------------------------------------------------------------------------
(* Risk acceptances *)

Within(b, p, x) == b \in SbomsOf(p) /\ (x = NoService \/ sbom[b].service = x)
Decisions(p)    == {a \in accepted : a.project = p}

BeginAccept(q, p, x) ==
  /\ p \in Live(project)
  /\ x # NoService => x \in ServicesOf(p)
  /\ Begins(q, [op |-> "open?", p |-> p, x |-> x])

CheckOpen(q) ==
  /\ req[q].op = "open?"
  /\ IF \E b \in open : Within(b, req[q].p, req[q].x)
     THEN Reads(q, [req[q] EXCEPT !.op = "decided?"])
     ELSE Refused(q)

CheckDecided(q) ==
  LET p == req[q].p  x == req[q].x IN
  /\ req[q].op = "decided?"
  /\ IF \E a \in Decisions(p) : x = NoService \/ a.service \in {NoService, x}
     THEN Refused(q)
     ELSE Reads(q, [req[q] EXCEPT !.op = "accept"])

\* The two partial unique indexes only see a row of the same scope.
Accept(q) ==
  LET row == [project |-> req[q].p, service |-> req[q].x] IN
  /\ req[q].op = "accept"
  /\ IF /\ row \notin accepted /\ row.project \in Live(project)
        /\ row.service # NoService => row.service \in Live(service)
     THEN accepted' = accepted \cup {row} /\ Ends(q) /\ UNCHANGED <<project, service, sbom, open>>
     ELSE Refused(q)

Revert(a) == a \in accepted /\ accepted' = accepted \ {a} /\ UNCHANGED <<project, service, sbom, open, req>>

---------------------------------------------------------------------------
(* The scan pipeline: findings open and close, SBOMs are deleted or pruned *)

Scan(b) ==
  /\ b \in Live(sbom)
  /\ open' = IF b \in open THEN open \ {b} ELSE open \cup {b}
  /\ UNCHANGED <<project, service, sbom, accepted, req>>

\* Mutant: the delete does not reach sbom_vulnerabilities.
DeleteSbomRow(b) ==
  /\ b \in Live(sbom)
  /\ sbom' = [sbom EXCEPT ![b] = Deleted(NewSbom)]
  /\ UNCHANGED <<project, service, open, accepted, req>>

DeleteSbom(b) ==
  /\ b \in Live(sbom)
  /\ sbom' = [sbom EXCEPT ![b] = Deleted(NewSbom)]
  /\ open' = open \ {b}
  /\ UNCHANGED <<project, service, accepted, req>>

---------------------------------------------------------------------------
Begin(q) ==
  \/ \E n \in Names : BeginCreate(q, n)
  \/ \E p \in Projects, n \in Names : BeginRename(q, p, n)
  \/ \E p \in Projects : BeginDropProject(q, p)
  \/ \E x \in Services : BeginDropService(q, x)
  \/ \E p \in Projects, d \in Documents, n \in ServiceNames \cup {NoService} : BeginUpload(q, p, d, n)
  \/ \E p \in Projects, x \in Services \cup {NoService} : BeginAccept(q, p, x)

Proceed(q) ==
  \/ Create(q) \/ Rename(q)
  \/ Load(q) \/ DropProject(q) \/ Count(q) \/ LoadSboms(q) \/ DropService(q)
  \/ Dedup(q) \/ FindService(q) \/ Store(q)
  \/ CheckOpen(q) \/ CheckDecided(q) \/ Accept(q)

Next ==
  \/ \E q \in Requests : Begin(q) \/ Proceed(q)
  \/ \E b \in Sboms : Scan(b) \/ DeleteSbom(b)
  \/ \E a \in accepted : Revert(a)

Spec == Init /\ [][Next]_vars

---------------------------------------------------------------------------
(* Properties *)

\* No foreign key says so, but an SBOM and an acceptance belong to the project
\* of their service, and nothing is left of a project or service that is gone.
Coherent ==
  /\ \A x \in Live(service) : service[x].project \in Live(project)
  /\ \A b \in Live(sbom) :
       /\ sbom[b].project \in Live(project)
       /\ sbom[b].service # NoService => sbom[b].service \in ServicesOf(sbom[b].project)
  /\ \A a \in accepted :
       /\ a.project \in Live(project)
       /\ a.service # NoService => a.service \in ServicesOf(a.project)

\* Requests that all found a name or a document unused leave one row of it.
NoTwins ==
  /\ \A o, p \in Live(project) :
       SlugOf[project[o].name] = SlugOf[project[p].name] => o = p
  /\ \A x, y \in Live(service) :
       service[x].project = service[y].project /\ service[x].name = service[y].name => x = y
  /\ \A b, c \in Live(sbom) : sbom[b].doc = sbom[c].doc => b = c

\* Deleting a service takes no SBOM along that was there when it was requested:
\* the count refuses, or somebody has deleted them all before it.
CountedSbomsStay ==
  [][\A q \in Requests : req[q].op = "drop service" /\ req'[q] = Idle =>
       \A b \in req[q].before : b \in Live(sbom) => sbom'[b].state = "live"]_vars

=============================================================================

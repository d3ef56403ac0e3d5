----------------------------- MODULE CatalogueProofs -----------------------------
(***************************************************************************)
(* Theorems about Catalogue, for any number of projects, services, SBOMs,   *)
(* names, documents and requests in progress.                               *)
(***************************************************************************)
EXTENDS Catalogue, TLAPS

-----------------------------------------------------------------------------
(* Types.                                                                   *)

ProjectRow == [state : {"new", "live", "gone"}, name : Names]
ServiceRow == [state : {"new", "live", "gone"}, project : Projects, name : ServiceNames]
SbomRow    == [state : {"new", "live", "gone"}, project : Projects,
               service : Services \cup {NoService}, doc : Documents]

LEMMA SomeOf ==
  ASSUME NEW S, S # {}
  PROVE  (CHOOSE e \in S : TRUE) \in S
  OBVIOUS

LEMMA Defaults ==
  /\ NewProject \in ProjectRow /\ NewProject.state = "new"
  /\ NewService \in ServiceRow /\ NewService.state = "new"
  /\ NewSbom \in SbomRow /\ NewSbom.state = "new"
  BY CatalogueAssumption, SomeOf DEF NewProject, NewService, NewSbom, ProjectRow, ServiceRow, SbomRow

LEMMA DeletedProject == Deleted(NewProject) \in ProjectRow /\ Deleted(NewProject).state = "gone"
  BY Defaults DEF Deleted, ProjectRow

LEMMA DeletedService == Deleted(NewService) \in ServiceRow /\ Deleted(NewService).state = "gone"
  BY Defaults DEF Deleted, ServiceRow

LEMMA DeletedSbom == Deleted(NewSbom) \in SbomRow /\ Deleted(NewSbom).state = "gone"
  BY Defaults DEF Deleted, SbomRow

LEMMA Columns ==
  ASSUME TypeOK
  PROVE  /\ DOMAIN project = Projects /\ DOMAIN service = Services /\ DOMAIN sbom = Sboms
         /\ \A p \in Projects : project[p] \in ProjectRow
         /\ \A x \in Services : service[x] \in ServiceRow
         /\ \A b \in Sboms : sbom[b] \in SbomRow
  BY DEF TypeOK, ProjectRow, ServiceRow, SbomRow

ProjectDrop == {"load", "load services", "load theirs", "drop project"}
ServiceDrop == {"count", "counted", "drop service"}
WithService == {"dedup", "find service", "store", "open?", "decided?", "accept"}

\* The arguments of a request, by its operation.
LEMMA Arguments ==
  ASSUME NEW r \in Request
  PROVE  /\ r.op \in {"create", "rename"} => r.name \in Names
         /\ r.op \in {"rename"} \cup ProjectDrop \cup WithService => r.p \in Projects
         /\ r.op \in ProjectDrop \cup ServiceDrop => r.kids \subseteq Sboms
         /\ r.op \in ProjectDrop => r.services \subseteq Services
         /\ r.op \in ServiceDrop => r.x \in Services /\ r.before \subseteq Sboms
         /\ r.op \in {"dedup", "find service", "store"} =>
              r.doc \in Documents /\ r.name \in ServiceNames \cup {NoService}
         /\ r.op \in WithService => r.x \in Services \cup {NoService}
  BY DEF Request, ProjectDrop, ServiceDrop, WithService

-----------------------------------------------------------------------------
(* What a request still knows of what it has read.                           *)

\* In the tables sv and sb: the service a request has found keeps its project for as
\* long as it is there.
KnownService(x, p, sv) ==
  x # NoService => /\ sv[x].state # "new"
                   /\ sv[x].state = "live" => sv[x].project = p

\* An SBOM that a request has seen there is still there or gone.
KnownSbom(b, sb, col, v) == sb[b].state # "new" /\ (sb[b].state = "live" => sb[b][col] = v)

\* What a request has loaded was there, and still belongs where it did unless it is
\* gone; the SBOMs that were in a service when its delete was requested are gone
\* once they are counted.
Sound(r, sv, sb) ==
  /\ r.op \in ProjectDrop =>
       /\ \A b \in r.kids : KnownSbom(b, sb, "project", r.p)
       /\ \A x \in r.services : KnownService(x, r.p, sv)
  /\ r.op = "drop service" => \A b \in r.kids : KnownSbom(b, sb, "service", r.x)
  /\ r.op = "count" => \A b \in r.before : KnownSbom(b, sb, "service", r.x)
  /\ r.op \in {"counted", "drop service"} => \A b \in r.before : sb[b].state = "gone"
  /\ r.op \in WithService => KnownService(r.x, r.p, sv)

AllSound == \A q \in Requests : Sound(req[q], service, sbom)

CatalogueInv == TypeOK /\ AllSound /\ Coherent /\ NoTwins

\* A row is created once, and only its end changes a service or an SBOM.
RowsAge ==
  /\ \A x \in Services : \/ service'[x] = service[x]
                         \/ service[x].state = "new" \/ service'[x].state = "gone"
  /\ \A b \in Sboms : \/ sbom'[b] = sbom[b]
                      \/ sbom[b].state = "new" \/ sbom'[b].state = "gone"

LEMMA SoundStays ==
  ASSUME NEW r \in Request, Sound(r, service, sbom), RowsAge
  PROVE  Sound(r, service', sbom')
  <1>1. ASSUME NEW x \in Services \cup {NoService}, NEW p, KnownService(x, p, service)
        PROVE  KnownService(x, p, service')
    BY <1>1 DEF KnownService, RowsAge
  <1>2. ASSUME NEW b \in Sboms, NEW col, NEW v, KnownSbom(b, sbom, col, v)
        PROVE  KnownSbom(b, sbom', col, v)
    BY <1>2 DEF KnownSbom, RowsAge
  <1>3. \A b \in Sboms : sbom[b].state = "gone" => sbom'[b].state = "gone"
    BY DEF RowsAge
  <1>4. /\ r.op \in ProjectDrop \cup ServiceDrop => r.kids \subseteq Sboms
        /\ r.op \in ProjectDrop => r.services \subseteq Services
        /\ r.op \in ServiceDrop => r.before \subseteq Sboms
        /\ r.op \in WithService => r.x \in Services \cup {NoService}
    BY Arguments
  <1>5. QED
    BY <1>1, <1>2, <1>3, <1>4 DEF Sound, ServiceDrop

LEMMA AllSoundStay ==
  ASSUME TypeOK, AllSound, RowsAge, NEW q \in Requests
  PROVE  Sound(req[q], service', sbom')
  BY SoundStays DEF TypeOK, AllSound

\* A step in which the request q goes on with r.
LEMMA OthersSound ==
  ASSUME TypeOK, AllSound, RowsAge, NEW q \in Requests, NEW r \in Request,
         Sound(r, service', sbom'), req' = [req EXCEPT ![q] = r]
  PROVE  AllSound' /\ req' \in [Requests -> Request]
  <1>1. \A o \in Requests : req'[o] = IF o = q THEN r ELSE req[o]
    BY DEF TypeOK
  <1>2. \A o \in Requests : Sound(req'[o], service', sbom')
    BY <1>1, AllSoundStay
  <1>3. req' \in [Requests -> Request]
    BY DEF TypeOK
  <1>4. QED
    BY <1>2, <1>3 DEF AllSound

LEMMA IdleSound ==
  ASSUME NEW sv, NEW sb
  PROVE  Idle \in Request /\ Sound(Idle, sv, sb)
  BY DEF Idle, Request, Sound, ProjectDrop, WithService

-----------------------------------------------------------------------------
(* The steps that read.                                                      *)

LEMMA CatalogueInit == Init => CatalogueInv
  <1> SUFFICES ASSUME Init PROVE CatalogueInv
    OBVIOUS
  <1>1. Live(project) = {} /\ Live(service) = {} /\ Live(sbom) = {} /\ accepted = {} /\ open = {}
    BY Defaults DEF Init, Live
  <1>2. TypeOK
    BY <1>1, Defaults, IdleSound DEF Init, TypeOK, ProjectRow, ServiceRow, SbomRow
  <1>3. AllSound
    BY IdleSound DEF Init, AllSound
  <1>4. Coherent /\ NoTwins
    BY <1>1 DEF Coherent, NoTwins
  <1>5. QED
    BY <1>2, <1>3, <1>4 DEF CatalogueInv

LEMMA SameRows ==
  ASSUME CatalogueInv, UNCHANGED rows, AllSound', req' \in [Requests -> Request]
  PROVE  CatalogueInv'
  <1>1. TypeOK'
    BY DEF CatalogueInv, TypeOK, rows, Live
  <1>2. Coherent'
    BY DEF CatalogueInv, Coherent, rows, Live, ServicesOf
  <1>3. NoTwins'
    BY DEF CatalogueInv, NoTwins, rows, Live
  <1>4. QED
    BY <1>1, <1>2, <1>3 DEF CatalogueInv

LEMMA ReadStep ==
  ASSUME CatalogueInv, NEW q \in Requests, NEW r \in Request, Sound(r, service, sbom), Reads(q, r)
  PROVE  CatalogueInv'
  <1>1. RowsAge /\ UNCHANGED rows /\ Sound(r, service', sbom')
    BY DEF Reads, RowsAge, rows
  <1>2. AllSound' /\ req' \in [Requests -> Request]
    BY <1>1, OthersSound DEF CatalogueInv, Reads
  <1>3. QED
    BY <1>1, <1>2, SameRows

LEMMA RefusedStep ==
  ASSUME CatalogueInv, NEW q \in Requests, Refused(q)
  PROVE  CatalogueInv'
  BY ReadStep, IdleSound DEF Refused, Ends, Reads

\* How the rows a request may load are typed and marked.
LEMMA LiveRows ==
  ASSUME TypeOK
  PROVE  /\ \A p \in Live(project) : p \in Projects /\ project[p].state = "live"
         /\ \A x \in Live(service) : x \in Services /\ service[x].state = "live"
         /\ \A b \in Live(sbom) : b \in Sboms /\ sbom[b].state = "live"
         /\ \A p \in Projects : project[p].state = "live" => p \in Live(project)
         /\ \A x \in Services : service[x].state = "live" => x \in Live(service)
         /\ \A b \in Sboms : sbom[b].state = "live" => b \in Live(sbom)
  BY Columns DEF Live

LEMMA BeginStep ==
  ASSUME CatalogueInv, NEW q \in Requests, Begin(q)
  PROVE  CatalogueInv'
  <1>0. TypeOK
    BY DEF CatalogueInv
  <1>1. CASE \E n \in Names : BeginCreate(q, n)
    <2>1. PICK n \in Names : BeginCreate(q, n)
      BY <1>1
    <2> DEFINE r == [op |-> "create", name |-> n]
    <2>2. r \in Request /\ Sound(r, service, sbom)
      BY DEF Request, Sound, ProjectDrop, WithService
    <2>3. QED
      BY <2>1, <2>2, ReadStep DEF BeginCreate, Begins
  <1>2. CASE \E p \in Projects, n \in Names : BeginRename(q, p, n)
    <2>1. PICK p \in Projects, n \in Names : BeginRename(q, p, n)
      BY <1>2
    <2> DEFINE r == [op |-> "rename", p |-> p, name |-> n]
    <2>2. r \in Request /\ Sound(r, service, sbom)
      BY DEF Request, Sound, ProjectDrop, WithService
    <2>3. QED
      BY <2>1, <2>2, ReadStep DEF BeginRename, Begins
  <1>3. CASE \E p \in Projects : BeginDropProject(q, p)
    <2>1. PICK p \in Projects : BeginDropProject(q, p)
      BY <1>3
    <2> DEFINE r == [op |-> "load", p |-> p, kids |-> {}, services |-> {}]
    <2>2. r \in Request /\ Sound(r, service, sbom)
      BY DEF Request, Sound, WithService
    <2>3. QED
      BY <2>1, <2>2, ReadStep DEF BeginDropProject, Begins
  <1>4. CASE \E x \in Services : BeginDropService(q, x)
    <2>1. PICK x \in Services : BeginDropService(q, x)
      BY <1>4
    <2> DEFINE r == [op |-> "count", x |-> x, kids |-> {}, before |-> SbomsAt(x)]
    <2>2. r \in Request
      BY <1>0, LiveRows DEF Request, SbomsAt
    <2>3. Sound(r, service, sbom)
      BY <1>0, LiveRows DEF Sound, SbomsAt, KnownSbom, ProjectDrop, WithService
    <2>4. QED
      BY <2>1, <2>2, <2>3, ReadStep DEF BeginDropService, Begins
  <1>5. CASE \E p \in Projects, d \in Documents, n \in ServiceNames \cup {NoService} :
               BeginUpload(q, p, d, n)
    <2>1. PICK p \in Projects, d \in Documents, n \in ServiceNames \cup {NoService} :
            BeginUpload(q, p, d, n)
      BY <1>5
    <2> DEFINE r == [op |-> "dedup", p |-> p, doc |-> d, name |-> n, x |-> NoService]
    <2>2. r \in Request /\ Sound(r, service, sbom)
      BY DEF Request, Sound, KnownService, ProjectDrop
    <2>3. QED
      BY <2>1, <2>2, ReadStep DEF BeginUpload, Begins
  <1>6. CASE \E p \in Projects, x \in Services \cup {NoService} : BeginAccept(q, p, x)
    <2>1. PICK p \in Projects, x \in Services \cup {NoService} : BeginAccept(q, p, x)
      BY <1>6
    <2> DEFINE r == [op |-> "open?", p |-> p, x |-> x]
    <2>2. r \in Request
      BY DEF Request
    <2>3. Sound(r, service, sbom)
      BY <1>0, <2>1, LiveRows DEF Sound, KnownService, BeginAccept, ServicesOf, ProjectDrop
    <2>4. QED
      BY <2>1, <2>2, <2>3, ReadStep DEF BeginAccept, Begins
  <1>7. QED
    BY <1>1, <1>2, <1>3, <1>4, <1>5, <1>6 DEF Begin

\* A request that only goes on to its next step.
LEMMA UploadGoesOn ==
  ASSUME NEW r \in Request, r.op = "dedup", NEW o \in {"find service", "store"}
  PROVE  /\ [r EXCEPT !.op = o] \in Request
         /\ \A sv, sb : Sound(r, sv, sb) => Sound([r EXCEPT !.op = o], sv, sb)
  <1>1. r \in [op : {"dedup", "find service", "store"}, p : Projects, doc : Documents,
               name : ServiceNames \cup {NoService}, x : Services \cup {NoService}]
    BY DEF Request
  <1> DEFINE n == [r EXCEPT !.op = o]
  <1>2. /\ n \in [op : {"dedup", "find service", "store"}, p : Projects, doc : Documents,
                  name : ServiceNames \cup {NoService}, x : Services \cup {NoService}]
        /\ n.op = o /\ n.p = r.p /\ n.x = r.x
    BY <1>1, Zenon
  <1>3. n \in Request
    BY <1>1, <1>2 DEF Request
  <1>4. \A sv, sb : Sound(r, sv, sb) => Sound(n, sv, sb)
    BY <1>1, <1>2 DEF Sound, ProjectDrop, WithService
  <1>5. QED
    BY <1>3, <1>4

LEMMA AcceptGoesOn ==
  ASSUME NEW r \in Request, r.op \in {"open?", "decided?"}, NEW o \in {"decided?", "accept"}
  PROVE  /\ [r EXCEPT !.op = o] \in Request
         /\ \A sv, sb : Sound(r, sv, sb) => Sound([r EXCEPT !.op = o], sv, sb)
  <1>1. r \in [op : {"open?", "decided?", "accept"}, p : Projects, x : Services \cup {NoService}]
    BY DEF Request
  <1> DEFINE n == [r EXCEPT !.op = o]
  <1>2. n = [op |-> o, p |-> r.p, x |-> r.x]
    BY <1>1
  <1>3. n \in Request
    BY <1>1, <1>2 DEF Request
  <1>4. \A sv, sb : Sound(r, sv, sb) => Sound(n, sv, sb)
    BY <1>1, <1>2 DEF Sound, ProjectDrop, WithService
  <1>5. QED
    BY <1>3, <1>4

LEMMA LoadStep ==
  ASSUME CatalogueInv, NEW q \in Requests, Load(q)
  PROVE  CatalogueInv'
  <1> DEFINE r == req[q]
             next(op, kids, services) == [op |-> op, p |-> r.p, kids |-> kids, services |-> services]
  <1>0. TypeOK /\ Coherent /\ r \in Request /\ Sound(r, service, sbom)
    BY DEF CatalogueInv, TypeOK, AllSound
  <1>1. r.op \in ProjectDrop
    BY DEF Load, ProjectDrop
  <1>2. r.p \in Projects /\ r.kids \subseteq Sboms /\ r.services \subseteq Services
    BY <1>0, <1>1, Arguments
  <1>3. /\ \A b \in r.kids : KnownSbom(b, sbom, "project", r.p)
        /\ \A x \in r.services : KnownService(x, r.p, service)
    BY <1>0, <1>1 DEF Sound
  <1>4. ASSUME NEW op \in ProjectDrop, NEW kids \in SUBSET Sboms, NEW services \in SUBSET Services,
               \A b \in kids : KnownSbom(b, sbom, "project", r.p),
               \A x \in services : KnownService(x, r.p, service),
               Reads(q, next(op, kids, services))
        PROVE  CatalogueInv'
    <2>1. next(op, kids, services) \in Request
      BY <1>2 DEF Request, ProjectDrop
    <2>2. Sound(next(op, kids, services), service, sbom)
      BY <1>4 DEF Sound, ProjectDrop, WithService
    <2>3. QED
      BY <1>4, <2>1, <2>2, ReadStep
  <1>5. CASE r.op = "load"
    <2>1. /\ SbomsOf(r.p) \in SUBSET Sboms
          /\ \A b \in SbomsOf(r.p) : KnownSbom(b, sbom, "project", r.p)
      BY <1>0, LiveRows DEF SbomsOf, KnownSbom
    <2>2. Reads(q, next("load services", SbomsOf(r.p), {}))
      BY <1>5 DEF Load
    <2>3. "load services" \in ProjectDrop /\ {} \in SUBSET Services
      BY DEF ProjectDrop
    <2> HIDE DEF next
    <2>4. QED
      BY <1>4, <2>1, <2>2, <2>3, Zenon
  <1>6. CASE r.op = "load services"
    <2>1. /\ ServicesOf(r.p) \in SUBSET Services
          /\ \A x \in ServicesOf(r.p) : KnownService(x, r.p, service)
      BY <1>0, LiveRows DEF ServicesOf, KnownService
    <2>2. Reads(q, next("load theirs", r.kids, ServicesOf(r.p)))
      BY <1>6 DEF Load
    <2>3. QED
      BY <1>2, <1>3, <1>4, <2>1, <2>2 DEF ProjectDrop
  <1>7. CASE r.op = "load theirs"
    <2> DEFINE theirs == UNION {SbomsAt(x) : x \in r.services}
    <2>1. ASSUME NEW b \in theirs PROVE b \in Sboms /\ KnownSbom(b, sbom, "project", r.p)
      <3>1. PICK x \in r.services : b \in SbomsAt(x)
        OBVIOUS
      <3>2. b \in Live(sbom) /\ b \in Sboms /\ sbom[b].state = "live" /\ sbom[b].service = x
        BY <1>0, <3>1, LiveRows DEF SbomsAt
      <3>3. x \in Services /\ x # NoService
        BY <1>2, CatalogueAssumption
      <3>4. x \in Live(service) /\ service[x].project = sbom[b].project
        BY <1>0, <3>2, <3>3 DEF Coherent, ServicesOf
      <3>5. service[x].project = r.p
        BY <1>0, <1>3, <3>3, <3>4, LiveRows DEF KnownService
      <3>6. QED
        BY <3>2, <3>4, <3>5 DEF KnownSbom
    <2>2. Reads(q, next("drop project", r.kids \cup theirs, r.services))
      BY <1>7 DEF Load
    <2> HIDE DEF theirs
    <2>3. r.kids \cup theirs \in SUBSET Sboms
      BY <1>2, <2>1
    <2>4. QED
      BY <1>2, <1>3, <1>4, <2>1, <2>2, <2>3 DEF ProjectDrop
  <1>8. QED
    BY <1>5, <1>6, <1>7 DEF Load

LEMMA CountStep ==
  ASSUME CatalogueInv, NEW q \in Requests, Count(q)
  PROVE  CatalogueInv'
  <1> DEFINE r == req[q]
             n == [op |-> "counted", x |-> r.x, kids |-> r.kids, before |-> r.before]
  <1>0. TypeOK /\ r \in Request /\ Sound(r, service, sbom) /\ r.op = "count"
    BY DEF CatalogueInv, TypeOK, AllSound, Count
  <1>1. CASE SbomsAt(r.x) # {}
    BY <1>1, RefusedStep DEF Count
  <1>2. CASE SbomsAt(r.x) = {}
    <2>1. r = [op |-> "count", x |-> r.x, kids |-> r.kids, before |-> r.before]
      BY <1>0 DEF Request
    <2>2. [r EXCEPT !.op = "counted"] = n
      BY <2>1
    <2>3. Reads(q, n)
      BY <1>2, <2>2 DEF Count
    <2>4. r.x \in Services /\ r.kids \subseteq Sboms /\ r.before \subseteq Sboms
      BY <1>0, Arguments DEF ServiceDrop
    <2>5. \A b \in r.before : sbom[b].state \in {"new", "live", "gone"}
      BY <1>0, <2>4, Columns DEF SbomRow
    <2>6. \A b \in r.before : sbom[b].state = "gone"
      BY <1>0, <1>2, <2>4, <2>5, LiveRows DEF Sound, KnownSbom, SbomsAt
    <2>7. n \in Request /\ Sound(n, service, sbom)
      BY <2>4, <2>6 DEF Request, Sound, ProjectDrop, WithService
    <2>8. QED
      BY <2>3, <2>7, ReadStep
  <1>3. QED
    BY <1>1, <1>2

LEMMA LookStep ==
  ASSUME CatalogueInv, NEW q \in Requests,
         LoadSboms(q) \/ Dedup(q) \/ FindService(q) \/ CheckOpen(q) \/ CheckDecided(q)
  PROVE  CatalogueInv'
  <1> DEFINE r == req[q]
  <1>0. TypeOK /\ r \in Request /\ Sound(r, service, sbom)
    BY DEF CatalogueInv, TypeOK, AllSound
  <1>1. CASE LoadSboms(q)
    <2> DEFINE n == [op |-> "drop service", x |-> r.x, kids |-> SbomsAt(r.x), before |-> r.before]
    <2>1. r.op = "counted" /\ Reads(q, n)
      BY <1>1 DEF LoadSboms
    <2>2. n \in Request
      BY <1>0, <2>1, Arguments, LiveRows DEF Request, SbomsAt, ServiceDrop
    <2>3. Sound(n, service, sbom)
      BY <1>0, <2>1, LiveRows DEF Sound, SbomsAt, KnownSbom, ProjectDrop, WithService
    <2>4. QED
      BY <2>1, <2>2, <2>3, ReadStep
  <1>2. CASE Dedup(q)
    <2>1. r.op = "dedup" /\ (Refused(q) \/ \E o \in {"find service", "store"} :
                                             Reads(q, [r EXCEPT !.op = o]))
      BY <1>2 DEF Dedup
    <2>2. QED
      BY <1>0, <2>1, RefusedStep, UploadGoesOn, ReadStep
  <1>3. CASE FindService(q)
    <2> DEFINE found == ServicesNamed(r.p, r.name)
               x     == IF found = {} THEN NoService ELSE CHOOSE y \in found : TRUE
               n     == [op |-> "store", p |-> r.p, doc |-> r.doc, name |-> r.name, x |-> x]
    <2>1. r.op = "find service" /\ Reads(q, n)
      BY <1>3 DEF FindService
    <2>2. x \in found \cup {NoService}
      OBVIOUS
    <2>3. x \in Services \cup {NoService} /\ KnownService(x, r.p, service)
      BY <1>0, <2>2, LiveRows DEF ServicesNamed, KnownService
    <2> HIDE DEF x
    <2>4. n \in Request /\ Sound(n, service, sbom)
      BY <1>0, <2>1, <2>3, Arguments DEF Request, Sound, ProjectDrop, WithService
    <2>5. QED
      BY <2>1, <2>4, ReadStep
  <1>4. CASE CheckOpen(q) \/ CheckDecided(q)
    <2>1. r.op \in {"open?", "decided?"}
          /\ (Refused(q) \/ \E o \in {"decided?", "accept"} : Reads(q, [r EXCEPT !.op = o]))
      BY <1>4 DEF CheckOpen, CheckDecided
    <2>2. QED
      BY <1>0, <2>1, RefusedStep, AcceptGoesOn, ReadStep
  <1>5. QED
    BY <1>1, <1>2, <1>3, <1>4

-----------------------------------------------------------------------------
(* The steps that write.                                                     *)

LEMMA EndSound ==
  ASSUME CatalogueInv, RowsAge,
         UNCHANGED req \/ \E q \in Requests : Ends(q)
  PROVE  AllSound' /\ req' \in [Requests -> Request]
  <1>1. CASE UNCHANGED req
    <2>1. \A q \in Requests : Sound(req[q], service', sbom')
      BY AllSoundStay DEF CatalogueInv
    <2>2. QED
      BY <1>1, <2>1 DEF AllSound, CatalogueInv, TypeOK
  <1>2. ASSUME NEW q \in Requests, Ends(q) PROVE AllSound' /\ req' \in [Requests -> Request]
    BY <1>2, OthersSound, IdleSound DEF Ends, CatalogueInv
  <1>3. QED
    BY <1>1, <1>2

\* Setting a column is writing the row with the column set.
LEMMA SetName ==
  ASSUME NEW table \in [Projects -> ProjectRow], NEW p \in Projects, NEW n \in Names,
         NEW row, [table[p] EXCEPT !.name = n] = row
  PROVE  [table EXCEPT ![p].name = n] = [table EXCEPT ![p] = row]
  <1>1. [table EXCEPT ![p].name = n] = [table EXCEPT ![p] = [table[p] EXCEPT !.name = n]]
    BY Zenon DEF ProjectRow
  <1>2. QED
    BY <1>1, Zenon

\* A project gets a name that no other project has, nor its slug.
LEMMA NameStep ==
  ASSUME CatalogueInv, NEW p \in Projects, NEW row \in ProjectRow, row.state = "live",
         NameUnused(p, row.name), project' = [project EXCEPT ![p] = row],
         UNCHANGED <<service, sbom, open, accepted>>,
         UNCHANGED req \/ \E q \in Requests : Ends(q)
  PROVE  CatalogueInv'
  <1>0. TypeOK
    BY DEF CatalogueInv
  <1>1. RowsAge
    BY DEF RowsAge
  <1>2. AllSound' /\ req' \in [Requests -> Request]
    BY <1>1, EndSound
  <1>3. \A o \in Projects : project'[o] = IF o = p THEN row ELSE project[o]
    BY <1>0 DEF TypeOK
  <1>4. TypeOK'
    BY <1>0, <1>2 DEF TypeOK, ProjectRow, Live
  <1>5. Live(project)' = Live(project) \cup {p} /\ DOMAIN project' = Projects
    BY <1>0, <1>3, <1>4 DEF Live, TypeOK
  <1>6. Coherent'
    BY <1>5 DEF CatalogueInv, Coherent, Live, ServicesOf
  <1>7. \A o \in Live(project) \ {p} : SlugOf[project[o].name] # SlugOf[row.name]
    BY DEF NameUnused
  <1>8. NoTwins'
    <2>1. \A o, u \in Live(project) : SlugOf[project[o].name] = SlugOf[project[u].name] => o = u
      BY DEF CatalogueInv, NoTwins
    <2>2. \A o \in Live(project)' :
            /\ o = p => project'[o].name = row.name
            /\ o # p => o \in Live(project) /\ project'[o].name = project[o].name
      BY <1>0, <1>3, <1>5, LiveRows
    <2>3. ASSUME NEW o \in Live(project)', NEW u \in Live(project)',
                 SlugOf[project'[o].name] = SlugOf[project'[u].name]
          PROVE  o = u
      <3>1. CASE o # p /\ u # p
        <4>1. o \in Live(project) /\ u \in Live(project)
              /\ SlugOf[project[o].name] = SlugOf[project[u].name]
          BY <2>2, <2>3, <3>1
        <4>2. QED
          BY <2>1, <4>1
      <3>2. CASE o = p /\ u # p
        BY <1>7, <2>2, <2>3, <3>2
      <3>3. CASE o # p /\ u = p
        BY <1>7, <2>2, <2>3, <3>3
      <3>4. QED
        BY <3>1, <3>2, <3>3
    <2>4. QED
      BY <2>3 DEF CatalogueInv, NoTwins, Live
  <1>9. QED
    BY <1>2, <1>4, <1>6, <1>8 DEF CatalogueInv

LEMMA ProjectStep ==
  ASSUME CatalogueInv, NEW q \in Requests, Create(q) \/ Rename(q)
  PROVE  CatalogueInv'
  <1>0. TypeOK /\ req[q] \in Request
    BY DEF CatalogueInv, TypeOK
  <1>1. CASE Refused(q)
    BY <1>1, RefusedStep
  <1>2. CASE Create(q) /\ ~Refused(q)
    <2> DEFINE row == [state |-> "live", name |-> req[q].name]
    <2>1. PICK p \in Fresh(project) :
            /\ NameUnused(p, req[q].name) /\ project' = [project EXCEPT ![p] = row]
            /\ Ends(q) /\ UNCHANGED <<service, sbom, open, accepted>>
      BY <1>2 DEF Create
    <2>2. p \in Projects /\ row \in ProjectRow
      BY <1>0, <1>2, Arguments, Columns DEF Fresh, Create, ProjectRow
    <2>3. QED
      BY <2>1, <2>2, NameStep
  <1>3. CASE Rename(q) /\ ~Refused(q)
    <2> DEFINE p   == req[q].p
               row == [state |-> "live", name |-> req[q].name]
    <2>1. /\ req[q].op = "rename" /\ p \in Live(project) /\ NameUnused(p, req[q].name)
          /\ project' = [project EXCEPT ![p].name = req[q].name]
          /\ Ends(q) /\ UNCHANGED <<service, sbom, open, accepted>>
      BY <1>3 DEF Rename
    <2>2. /\ p \in Projects /\ req[q].name \in Names /\ row \in ProjectRow
          /\ project[p] \in ProjectRow /\ project[p].state = "live"
      BY <1>0, <2>1, Arguments, LiveRows, Columns DEF ProjectRow
    <2>3. [project[p] EXCEPT !.name = req[q].name] = row
      <3>1. project[p] = [state |-> "live", name |-> project[p].name]
        BY <2>2 DEF ProjectRow
      <3>2. QED
        BY <3>1, SMT
    <2>4. project' = [project EXCEPT ![p] = row]
      <3>1. project \in [Projects -> ProjectRow]
        BY <1>0 DEF TypeOK, ProjectRow
      <3>2. QED
        BY <2>1, <2>2, <2>3, <3>1, SetName, Zenon
    <2>5. QED
      BY <2>1, <2>2, <2>4, NameStep
  <1>4. QED
    BY <1>1, <1>2, <1>3

\* The projects P, services X and SBOMs B are deleted, and what remains refers to
\* none of them.
LEMMA DropStep ==
  ASSUME CatalogueInv, NEW P, NEW X, NEW B,
         project' = [p \in Projects |-> IF p \in P THEN Deleted(NewProject) ELSE project[p]],
         service' = [x \in Services |-> IF x \in X THEN Deleted(NewService) ELSE service[x]],
         sbom'    = [b \in Sboms |-> IF b \in B THEN Deleted(NewSbom) ELSE sbom[b]],
         open' = open \ B, accepted' \subseteq accepted,
         \A x \in Live(service) \ X : service[x].project \notin P,
         \A b \in Live(sbom) \ B : sbom[b].project \notin P /\ sbom[b].service \notin X,
         \A a \in accepted' : a.project \notin P /\ a.service \notin X,
         UNCHANGED req \/ \E q \in Requests : Ends(q)
  PROVE  CatalogueInv'
  <1>0. TypeOK /\ Coherent /\ NoTwins
    BY DEF CatalogueInv
  <1>1. RowsAge
    BY DeletedService, DeletedSbom DEF RowsAge
  <1>2. AllSound' /\ req' \in [Requests -> Request]
    BY <1>1, EndSound
  <1>3. /\ project' \in [Projects -> ProjectRow] /\ service' \in [Services -> ServiceRow]
        /\ sbom' \in [Sboms -> SbomRow]
    BY <1>0, Columns, DeletedProject, DeletedService, DeletedSbom
  <1>4. /\ \A p : p \in Live(project)' <=> p \in Live(project) /\ p \notin P
        /\ \A x : x \in Live(service)' <=> x \in Live(service) /\ x \notin X
        /\ \A b : b \in Live(sbom)' <=> b \in Live(sbom) /\ b \notin B
    BY <1>0, Columns, DeletedProject, DeletedService, DeletedSbom DEF Live
  <1>5. /\ \A p \in Live(project)' : project'[p] = project[p]
        /\ \A x \in Live(service)' : service'[x] = service[x]
        /\ \A b \in Live(sbom)' : sbom'[b] = sbom[b]
    BY <1>0, <1>4, LiveRows
  <1>6. TypeOK'
    <2>1. open' \subseteq Live(sbom)'
      BY <1>0, <1>4 DEF TypeOK
    <2>2. QED
      BY <1>0, <1>2, <1>3, <2>1 DEF TypeOK, ProjectRow, ServiceRow, SbomRow
  <1>7. Coherent'
    <2>1. \A x \in Live(service)' : service'[x].project \in Live(project)'
      BY <1>0, <1>4, <1>5 DEF Coherent
    <2>2. \A x, p : x \in ServicesOf(p) /\ x \notin X => x \in ServicesOf(p)'
      BY <1>4, <1>5 DEF ServicesOf
    <2>3. ASSUME NEW b \in Live(sbom)'
          PROVE  /\ sbom'[b].project \in Live(project)'
                 /\ sbom'[b].service # NoService => sbom'[b].service \in ServicesOf(sbom[b].project)'
      BY <1>0, <1>4, <1>5, <2>2 DEF Coherent
    <2>4. ASSUME NEW a \in accepted'
          PROVE  /\ a.project \in Live(project)'
                 /\ a.service # NoService => a.service \in ServicesOf(a.project)'
      BY <1>0, <1>4, <2>2 DEF Coherent
    <2>5. QED
      BY <1>5, <2>1, <2>3, <2>4 DEF Coherent, ServicesOf
  <1>8. NoTwins'
    BY <1>0, <1>4, <1>5 DEF NoTwins
  <1>9. QED
    BY <1>2, <1>6, <1>7, <1>8 DEF CatalogueInv

LEMMA DropProjectStep ==
  ASSUME CatalogueInv, NEW q \in Requests, DropProject(q)
  PROVE  CatalogueInv'
  <1> DEFINE r == req[q]
             p == req[q].p
  <1>0. TypeOK /\ Coherent /\ r \in Request /\ Sound(r, service, sbom) /\ r.op = "drop project"
    BY DEF CatalogueInv, TypeOK, AllSound, DropProject
  <1>1. CASE Refused(q)
    BY <1>1, RefusedStep
  <1>2. CASE ~Refused(q)
    <2>1. /\ SbomsOf(p) \subseteq r.kids /\ ServicesOf(p) \subseteq r.services
          /\ project' = [project EXCEPT ![p] = Deleted(NewProject)]
          /\ service' = [x \in Services |-> IF x \in r.services THEN Deleted(NewService) ELSE service[x]]
          /\ sbom' = [b \in Sboms |-> IF b \in r.kids THEN Deleted(NewSbom) ELSE sbom[b]]
          /\ open' = open \ r.kids
          /\ accepted' = {a \in accepted : a.project # p}
          /\ Ends(q)
      BY <1>2 DEF DropProject
    <2>2. project' = [o \in Projects |-> IF o \in {p} THEN Deleted(NewProject) ELSE project[o]]
      BY <1>0, <2>1 DEF TypeOK
    <2>3. \A x \in r.services : x \in Services /\ x # NoService
                                /\ (service[x].state = "live" => service[x].project = p)
      BY <1>0, Arguments, CatalogueAssumption DEF Sound, KnownService, ProjectDrop
    <2>4. \A x \in Live(service) \ r.services : service[x].project \notin {p}
      BY <2>1 DEF ServicesOf
    <2>5. \A x \in r.services : \A o : x \in ServicesOf(o) => o = p
      BY <1>0, <2>3, LiveRows DEF ServicesOf
    <2>6. \A b \in Live(sbom) \ r.kids : sbom[b].project \notin {p}
      BY <2>1 DEF SbomsOf
    <2>7. \A b \in Live(sbom) \ r.kids : sbom[b].service \notin r.services
      BY <1>0, <2>3, <2>5, <2>6 DEF Coherent
    <2>8. \A a \in accepted' : a.project \notin {p} /\ a.service \notin r.services
      BY <1>0, <2>1, <2>3, <2>5 DEF Coherent
    <2>9. QED
      BY <2>1, <2>2, <2>4, <2>6, <2>7, <2>8, DropStep
  <1>3. QED
    BY <1>1, <1>2

LEMMA DropServiceStep ==
  ASSUME CatalogueInv, NEW q \in Requests, DropService(q)
  PROVE  CatalogueInv'
  <1> DEFINE r == req[q]
             x == req[q].x
  <1>0. TypeOK
    BY DEF CatalogueInv
  <1>1. CASE Refused(q)
    BY <1>1, RefusedStep
  <1>2. CASE ~Refused(q)
    <2>1. /\ SbomsAt(x) \subseteq r.kids
          /\ service' = [service EXCEPT ![x] = Deleted(NewService)]
          /\ sbom' = [b \in Sboms |-> IF b \in r.kids THEN Deleted(NewSbom) ELSE sbom[b]]
          /\ open' = open \ r.kids
          /\ accepted' = {a \in accepted : a.service # x}
          /\ Ends(q) /\ UNCHANGED project
      BY <1>2 DEF DropService
    <2>2. service' = [y \in Services |-> IF y \in {x} THEN Deleted(NewService) ELSE service[y]]
      BY <1>0, <2>1 DEF TypeOK
    <2>0. PICK none : none = {}
      OBVIOUS
    <2>3. project' = [o \in Projects |-> IF o \in none THEN Deleted(NewProject) ELSE project[o]]
      BY <1>0, <2>0, <2>1 DEF TypeOK
    <2>4. \A b \in Live(sbom) \ r.kids : sbom[b].service \notin {x}
      BY <2>1 DEF SbomsAt
    <2>5. \A a \in accepted' : a.service \notin {x}
      BY <2>1
    <2>6. accepted' \subseteq accepted
      BY <2>1
    <2>7. /\ \A y \in Live(service) \ {x} : service[y].project \notin none
          /\ \A b \in Live(sbom) \ r.kids : sbom[b].project \notin none /\ sbom[b].service \notin {x}
          /\ \A a \in accepted' : a.project \notin none /\ a.service \notin {x}
      BY <2>0, <2>4, <2>5
    <2>8. QED
      BY <2>1, <2>2, <2>3, <2>6, <2>7, DropStep
  <1>3. QED
    BY <1>1, <1>2

LEMMA DeleteSbomStep ==
  ASSUME CatalogueInv, NEW b \in Sboms, DeleteSbom(b)
  PROVE  CatalogueInv'
  <1>0. TypeOK
    BY DEF CatalogueInv
  <1>1. PICK none : none = {}
    OBVIOUS
  <1>2. sbom' = [c \in Sboms |-> IF c \in {b} THEN Deleted(NewSbom) ELSE sbom[c]]
    BY <1>0 DEF DeleteSbom, TypeOK
  <1>3. /\ project' = [o \in Projects |-> IF o \in none THEN Deleted(NewProject) ELSE project[o]]
        /\ service' = [y \in Services |-> IF y \in none THEN Deleted(NewService) ELSE service[y]]
    BY <1>0, <1>1 DEF DeleteSbom, TypeOK
  <1>4. open' = open \ {b} /\ accepted' \subseteq accepted /\ UNCHANGED req
    BY DEF DeleteSbom
  <1>5. /\ \A y \in Live(service) \ none : service[y].project \notin none
        /\ \A c \in Live(sbom) \ {b} : sbom[c].project \notin none /\ sbom[c].service \notin none
        /\ \A a \in accepted' : a.project \notin none /\ a.service \notin none
    BY <1>1
  <1>6. QED
    BY <1>2, <1>3, <1>4, <1>5, DropStep

\* The SBOM is stored once, in a project that is there, at a service of that project,
\* which the same transaction may have created.
LEMMA StoreStep ==
  ASSUME CatalogueInv, NEW q \in Requests, Store(q)
  PROVE  CatalogueInv'
  <1> DEFINE r == req[q]
             row(x) == [state |-> "live", project |-> r.p, service |-> x, doc |-> r.doc]
             new == [state |-> "live", project |-> r.p, name |-> r.name]
  <1>0. TypeOK /\ Coherent /\ NoTwins /\ r \in Request /\ Sound(r, service, sbom) /\ r.op = "store"
    BY DEF CatalogueInv, TypeOK, AllSound, Store
  <1>1. CASE Refused(q)
    BY <1>1, RefusedStep
  <1>2. CASE ~Refused(q)
    <2>1. /\ r.p \in Live(project) /\ Unstored(r.doc)
          /\ r.x # NoService => r.x \in Live(service)
          /\ Ends(q) /\ UNCHANGED <<project, open, accepted>>
      BY <1>2 DEF Store
    <2>2. PICK b \in Fresh(sbom), x \in Services \cup {NoService} :
            /\ sbom' = [sbom EXCEPT ![b] = row(x)]
            /\ \/ x = r.x /\ UNCHANGED service
               \/ /\ x \in Fresh(service) /\ service' = [service EXCEPT ![x] = new]
                  /\ ServicesNamed(r.p, r.name) = {} /\ r.name # NoService
      <3>1. CASE ~(r.name # NoService /\ r.x = NoService)
        <4>1. PICK b \in Fresh(sbom) : sbom' = [sbom EXCEPT ![b] = row(r.x)]
          BY <1>2, <3>1 DEF Store
        <4>2. UNCHANGED service /\ r.x \in Services \cup {NoService}
          BY <1>0, <1>2, <3>1, Arguments DEF Store, WithService
        <4>3. QED
          BY <4>1, <4>2
      <3>2. CASE r.name # NoService /\ r.x = NoService
        <4>1. PICK b \in Fresh(sbom), x \in Fresh(service) :
                /\ sbom' = [sbom EXCEPT ![b] = row(x)]
                /\ service' = [service EXCEPT ![x] = new]
          BY <1>2, <3>2 DEF Store
        <4>2. ServicesNamed(r.p, r.name) = {}
          BY <1>2, <3>2 DEF Store
        <4>3. x \in Services
          BY <1>0, Columns DEF Fresh
        <4>4. QED
          BY <3>2, <4>1, <4>2, <4>3
      <3>3. QED
        BY <3>1, <3>2
    <2>3. b \in Sboms /\ sbom[b].state = "new"
      BY <1>0, Columns DEF Fresh
    <2>4. x \in Fresh(service) => x \in Services /\ service[x].state = "new"
      BY <1>0, Columns DEF Fresh
    <2>5. r.p \in Projects /\ r.doc \in Documents /\ r.name \in ServiceNames \cup {NoService}
      BY <1>0, Arguments DEF WithService
    <2>6. \A c \in Sboms : sbom'[c] = IF c = b THEN row(x) ELSE sbom[c]
      BY <1>0, <2>2, <2>3 DEF TypeOK
    <2>7. \A y \in Services : \/ service'[y] = service[y]
                              \/ y = x /\ service[y].state = "new" /\ service'[y] = new
      BY <1>0, <2>2, <2>4 DEF TypeOK
    <2>8. RowsAge
      BY <2>3, <2>6, <2>7 DEF RowsAge
    <2>9. AllSound' /\ req' \in [Requests -> Request]
      BY <2>1, <2>8, EndSound
    <2>10. sbom' \in [Sboms -> SbomRow] /\ row(x) \in SbomRow
      BY <1>0, <2>2, <2>5, Columns DEF SbomRow, TypeOK
    <2>11. service' \in [Services -> ServiceRow]
      BY <1>0, <2>2, <2>5, Columns DEF ServiceRow, TypeOK
    <2>12. \A c : c \in Live(sbom)' <=> c = b \/ c \in Live(sbom)
      BY <1>0, <2>3, <2>6, <2>10, Columns DEF Live
    <2>13. \A y \in Live(service)' :
             \/ y \in Live(service) /\ service'[y] = service[y]
             \/ /\ y = x /\ service'[y] = new /\ y \notin Live(service)
                /\ ServicesNamed(r.p, r.name) = {}
      BY <1>0, <2>2, <2>4, <2>7, <2>11, Columns DEF Live, TypeOK
    <2>14. \A y \in Live(service) : y \in Live(service)' /\ service'[y] = service[y]
      BY <1>0, <2>7, <2>11, Columns DEF Live
    <2>15. \A y, p : y \in ServicesOf(p) => y \in ServicesOf(p)'
      BY <2>14 DEF ServicesOf
    <2>16. x # NoService => x \in Live(service)' /\ service'[x].project = r.p
      <3>1. CASE x = r.x /\ UNCHANGED service
        <4>1. x # NoService => x \in Live(service) /\ service[x].project = r.p
          BY <1>0, <2>1, <3>1, LiveRows DEF Sound, KnownService, WithService
        <4>2. QED
          BY <2>14, <4>1
      <3>2. CASE x \in Fresh(service) /\ service' = [service EXCEPT ![x] = new]
        <4>1. service'[x] = new /\ x \in DOMAIN service'
          BY <1>0, <2>4, <3>2 DEF TypeOK
        <4>2. QED
          BY <4>1 DEF Live
      <3>3. QED
        BY <2>2, <3>1, <3>2
    <2>17. Coherent'
      <3>1. Live(project)' = Live(project) /\ accepted' = accepted
        BY <2>1 DEF Live
      <3>2. \A y \in Live(service)' : service'[y].project \in Live(project)'
        BY <1>0, <2>1, <2>13, <3>1 DEF Coherent
      <3>3. ASSUME NEW c \in Live(sbom)'
            PROVE  /\ sbom'[c].project \in Live(project)'
                   /\ sbom'[c].service # NoService => sbom'[c].service \in ServicesOf(sbom[c].project)'
        <4>1. CASE c = b
          <5>1. sbom'[c].project = r.p /\ sbom'[c].service = x
            BY <2>3, <2>6, <4>1
          <5>2. QED
            BY <2>1, <2>16, <3>1, <5>1 DEF ServicesOf
        <4>2. CASE c # b
          <5>1. c \in Live(sbom) /\ sbom'[c] = sbom[c]
            BY <1>0, <2>6, <2>12, <4>2, LiveRows
          <5>2. /\ sbom[c].project \in Live(project)
                /\ sbom[c].service # NoService => sbom[c].service \in ServicesOf(sbom[c].project)
            BY <1>0, <5>1 DEF Coherent
          <5>3. sbom[c].service # NoService => sbom[c].service \in ServicesOf(sbom[c].project)'
            BY <2>15, <5>1, <5>2
          <5>4. QED
            BY <3>1, <5>1, <5>2, <5>3
        <4>3. QED
          BY <4>1, <4>2
      <3>4. \A a \in accepted' : /\ a.project \in Live(project)'
                                 /\ a.service # NoService => a.service \in ServicesOf(a.project)'
        BY <1>0, <2>15, <3>1 DEF Coherent
      <3>5. QED
        BY <3>2, <3>3, <3>4 DEF Coherent
    <2>18. NoTwins'
      <3>1. project' = project /\ Live(project)' = Live(project)
        BY <2>1 DEF Live
      <3>2. \A o, u \in Live(project)' : SlugOf[project'[o].name] = SlugOf[project'[u].name] => o = u
        BY <1>0, <3>1 DEF NoTwins
      <3>3. ASSUME NEW y \in Live(service)', NEW z \in Live(service)',
                   service'[y].project = service'[z].project, service'[y].name = service'[z].name
            PROVE  y = z
        <4>1. ServicesNamed(r.p, r.name) = {} =>
                \A s \in Live(service) : ~(service[s].project = r.p /\ service[s].name = r.name)
          BY DEF ServicesNamed
        <4>2. new.project = r.p /\ new.name = r.name
          OBVIOUS
        <4>3. QED
          BY <1>0, <2>13, <3>3, <4>1, <4>2 DEF NoTwins
      <3>4. \A c \in Live(sbom) : sbom[c].doc # r.doc
        BY <2>1 DEF Unstored, Copies
      <3>5. \A c \in Live(sbom)' : \/ c = b /\ sbom'[c].doc = r.doc
                                   \/ c \in Live(sbom) /\ sbom'[c] = sbom[c]
        BY <1>0, <2>3, <2>6, <2>12, LiveRows
      <3>6. \A c, d \in Live(sbom)' : sbom'[c].doc = sbom'[d].doc => c = d
        BY <1>0, <3>4, <3>5 DEF NoTwins
      <3>7. QED
        BY <3>2, <3>3, <3>6 DEF NoTwins
    <2>19. TypeOK'
      <3>1. open' \subseteq Live(sbom)'
        BY <1>0, <2>1, <2>12 DEF TypeOK
      <3>2. QED
        BY <1>0, <2>1, <2>9, <2>10, <2>11, <3>1 DEF TypeOK, SbomRow, ServiceRow
    <2>20. QED
      BY <2>9, <2>17, <2>18, <2>19 DEF CatalogueInv
  <1>3. QED
    BY <1>1, <1>2

LEMMA AcceptStep ==
  ASSUME CatalogueInv, NEW q \in Requests, Accept(q)
  PROVE  CatalogueInv'
  <1> DEFINE r == req[q]
             row == [project |-> r.p, service |-> r.x]
  <1>0. TypeOK /\ Coherent /\ r \in Request /\ Sound(r, service, sbom) /\ r.op = "accept"
    BY DEF CatalogueInv, TypeOK, AllSound, Accept
  <1>1. CASE Refused(q)
    BY <1>1, RefusedStep
  <1>2. CASE ~Refused(q)
    <2>1. /\ row.project \in Live(project)
          /\ row.service # NoService => row.service \in Live(service)
          /\ accepted' = accepted \cup {row} /\ Ends(q) /\ UNCHANGED <<project, service, sbom, open>>
      BY <1>2 DEF Accept
    <2>2. RowsAge
      BY <2>1 DEF RowsAge
    <2>3. AllSound' /\ req' \in [Requests -> Request]
      BY <2>1, <2>2, EndSound
    <2>4. r.p \in Projects /\ r.x \in Services \cup {NoService}
      BY <1>0, Arguments DEF WithService
    <2>5. r.x # NoService => r.x \in ServicesOf(r.p)
      BY <1>0, <2>1, LiveRows DEF Sound, KnownService, ServicesOf, WithService
    <2>6. TypeOK'
      BY <1>0, <2>1, <2>3, <2>4 DEF TypeOK, Live
    <2>7. /\ \A s \in Live(service) : service[s].project \in Live(project)
          /\ \A b \in Live(sbom) :
               /\ sbom[b].project \in Live(project)
               /\ sbom[b].service # NoService => sbom[b].service \in ServicesOf(sbom[b].project)
          /\ \A a \in accepted' :
               /\ a.project \in Live(project)
               /\ a.service # NoService => a.service \in ServicesOf(a.project)
      BY <1>0, <2>1, <2>5 DEF Coherent
    <2>8. Coherent'
      BY <2>1, <2>7 DEF Coherent, Live, ServicesOf
    <2>9. NoTwins'
      BY <2>1 DEF CatalogueInv, NoTwins, Live
    <2>10. QED
      BY <2>3, <2>6, <2>8, <2>9 DEF CatalogueInv
  <1>3. QED
    BY <1>1, <1>2

\* A scan or a revert changes no row that another refers to.
LEMMA ScanRevertStep ==
  ASSUME CatalogueInv, (\E b \in Sboms : Scan(b)) \/ (\E a \in accepted : Revert(a))
  PROVE  CatalogueInv'
  <1>0. TypeOK /\ Coherent /\ NoTwins
    BY DEF CatalogueInv
  <1>1. /\ UNCHANGED <<project, service, sbom, req>> /\ accepted' \subseteq accepted
        /\ open' \subseteq Live(sbom)
    BY <1>0 DEF Scan, Revert, TypeOK
  <1>2. RowsAge
    BY <1>1 DEF RowsAge
  <1>3. AllSound' /\ req' \in [Requests -> Request]
    BY <1>1, <1>2, EndSound
  <1>4. TypeOK'
    BY <1>0, <1>1, <1>3 DEF TypeOK, Live
  <1>5. Coherent'
    BY <1>0, <1>1 DEF Coherent, Live, ServicesOf
  <1>6. NoTwins'
    BY <1>0, <1>1 DEF NoTwins, Live
  <1>7. QED
    BY <1>3, <1>4, <1>5, <1>6 DEF CatalogueInv

-----------------------------------------------------------------------------
(* The theorems.                                                             *)

LEMMA CatalogueStep == CatalogueInv /\ [Next]_vars => CatalogueInv'
  <1> SUFFICES ASSUME CatalogueInv, [Next]_vars PROVE CatalogueInv'
    OBVIOUS
  <1>1. CASE UNCHANGED vars
    <2>1. UNCHANGED rows /\ AllSound' /\ req' \in [Requests -> Request]
      BY <1>1 DEF vars, rows, CatalogueInv, AllSound, TypeOK
    <2>2. QED
      BY <2>1, SameRows
  <1>2. ASSUME NEW q \in Requests, Begin(q) PROVE CatalogueInv'
    BY <1>2, BeginStep
  <1>3. ASSUME NEW q \in Requests, Proceed(q) PROVE CatalogueInv'
    BY <1>3, ProjectStep, LoadStep, DropProjectStep, CountStep, DropServiceStep, LookStep, StoreStep, AcceptStep
    DEF Proceed
  <1>4. ASSUME NEW b \in Sboms, Scan(b) \/ DeleteSbom(b) PROVE CatalogueInv'
    BY <1>4, ScanRevertStep, DeleteSbomStep
  <1>5. ASSUME NEW a \in accepted, Revert(a) PROVE CatalogueInv'
    BY <1>5, ScanRevertStep
  <1>6. QED
    BY <1>1, <1>2, <1>3, <1>4, <1>5 DEF Next

LEMMA CatalogueInvHolds == Spec => []CatalogueInv
  BY CatalogueInit, CatalogueStep, PTL DEF Spec

\* Every row, acceptance and request in progress has the columns and arguments its
\* tables and handlers declare, and a vulnerability is open only in SBOMs that exist
\* (models/vulnerability.py: the CASCADE of sbom_vulnerabilities).
THEOREM CatalogueTypeCorrect == Spec => []TypeOK
  <1>1. CatalogueInv => TypeOK
    BY DEF CatalogueInv
  <1>2. QED
    BY <1>1, CatalogueInvHolds, PTL

\* However requests interleave, an SBOM or an acceptance never refers to a service of
\* another project, nor to a project or service that was deleted, although no
\* foreign key relates the two columns (models/sbom.py, services/sbom_parser.py,
\* api/v1/vulnerabilities.py).
THEOREM RowsCoherent == Spec => []Coherent
  <1>1. CatalogueInv => Coherent
    BY DEF CatalogueInv
  <1>2. QED
    BY <1>1, CatalogueInvHolds, PTL

\* No two projects share a slug, no two services of a project a name and no two SBOMs
\* a document, although each request checks before it writes.
THEOREM NoTwinsEver == Spec => []NoTwins
  <1>1. CatalogueInv => NoTwins
    BY DEF CatalogueInv
  <1>2. QED
    BY <1>1, CatalogueInvHolds, PTL

\* The delete of a service takes along none of the SBOMs that were in it when it was
\* requested: it goes on only when they are all gone, and ids do not come back
\* (delete_service of api/v1/services.py).
THEOREM CountedStay == Spec => CountedSbomsStay
  <1>1. CatalogueInv => \A q \in Requests : req[q].op = "drop service" =>
                          \A b \in req[q].before : b \notin Live(sbom)
    BY LiveRows DEF CatalogueInv, AllSound, Sound
  <1>2. CatalogueInv /\ [Next]_vars =>
          [\A q \in Requests : req[q].op = "drop service" /\ req'[q] = Idle =>
             \A b \in req[q].before : b \in Live(sbom) => sbom'[b].state = "live"]_vars
    BY <1>1
  <1>3. QED
    BY <1>2, CatalogueInvHolds, PTL DEF Spec, CountedSbomsStay
=============================================================================

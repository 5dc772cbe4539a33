---------------------------- MODULE SaverProofs -----------------------------
(***************************************************************************)
(* Proofs about the download, for any projects and any number of downloads *)
(* and visits: its types; that it starts from nothing; that it is complete *)
(* when it comes to rest without a failure; that file names name files;    *)
(* and that it implements Replacement.                                     *)
(***************************************************************************)
EXTENDS Saver, TLAPS

-----------------------------------------------------------------------------
(* The inductive invariant *)

\* Every Saver that was started has a project, and the alert is up only when
\* one was chosen: Retry never asks for "no project".
Chosen ==
    /\ \A k \in 1..started : saver[k].project \in Projects
    /\ alert => projectID # NoProject

\* Whatever is still to come was asked for by the latest Saver or by one that
\* counts as late, and whatever was left out by a Saver that was started.
Requested ==
    /\ \A r \in inflight \cup done : r.obj.from \in 1..started /\ r.obj.from \in late \cup {started}
    /\ \A r \in inflight : r.kind = "image" => r.image \in Images
    /\ \A r \in done : r.image \in Images
    /\ \A o \in withheld : o.from \in 1..started
    /\ block # NoBlock =>
           /\ block.from \in late \cup {started}
           /\ \A o \in block.rest : o.from = block.from

Grounded(ctx) == \A f \in ctx : Exists(f.obj) \in ctx

\* No fact without its object, and nothing in the store that the context lacks.
Traceable == Grounded(context) /\ Grounded(store) /\ store \subseteq context

\* What an earlier Saver left behind is, until the clean-up runs, in the store,
\* where the clean-up will find it.
Fresh ==
    running => \A f \in context :
        \/ f.obj.from \in {started} \cup late
        \/ cleanup /\ Exists(f.obj) \in store

SaverInv == TypeOK /\ Chosen /\ Requested /\ Traceable /\ Fresh

-----------------------------------------------------------------------------
(* Objects, facts and requests *)

LEMMA NamesOf ==
    ASSUME NEW p \in Projects
    PROVE  p \in Names /\ CoinsOf[p] \subseteq Names /\ LocationsOf[p] \subseteq Names
<1>1. CoinsOf[p] \subseteq UNION {CoinsOf[q] : q \in Projects}
    OBVIOUS
<1>2. LocationsOf[p] \subseteq UNION {LocationsOf[q] : q \in Projects}
    OBVIOUS
<1> QED
    BY <1>1, <1>2, Zenon DEF Names

LEMMA ObjectsOf ==
    ASSUME TypeOK, Chosen, NEW k \in 1..started
    PROVE  /\ k \in Savers /\ k \in 0..MaxSavers
           /\ ProjectObject(k) \in Objects /\ ProjectObject(k).from = k
           /\ OrganisationObject(k) \in Objects /\ OrganisationObject(k).from = k
           /\ CoinObjects(k) \subseteq Objects /\ \A o \in CoinObjects(k) : o.from = k
           /\ LocationObjects(k) \subseteq Objects /\ \A o \in LocationObjects(k) : o.from = k
<1>1. k \in Savers /\ k \in 0..MaxSavers
    BY SaverAssumption DEF TypeOK, Savers
<1>2. saver[k].project \in Projects
    BY DEF Chosen
<1>3. /\ saver[k].project \in Names
      /\ CoinsOf[saver[k].project] \subseteq Names
      /\ LocationsOf[saver[k].project] \subseteq Names
    BY <1>2, NamesOf
<1> QED
    BY <1>1, <1>3 DEF ProjectObject, OrganisationObject, CoinObjects, LocationObjects, Object, Objects

LEMMA QuizObjectType ==
    ASSUME NEW o \in Objects
    PROVE  QuizObject(o) \in Objects /\ QuizObject(o).from = o.from
BY DEF QuizObject, Object, Objects

LEMMA RequestType ==
    ASSUME NEW o \in Objects,
           NEW kind \in {"project", "coins", "locations", "organisation", "quiz"}
    PROVE  /\ Ask(kind, o) \in Requests
           /\ Ask(kind, o).obj = o /\ Ask(kind, o).kind = kind
           /\ ImageRequests(o) \subseteq Requests
           /\ \A r \in ImageRequests(o) : r.obj = o /\ r.kind = "image" /\ r.image \in Images
<1>1. ImagesOf(o) \subseteq Images
    BY DEF ImagesOf, Images
<1> QED
    BY <1>1 DEF Ask, ImageRequests, Request, Requests, Images

LEMMA FactType ==
    ASSUME NEW o \in Objects, NEW what \in {"exists", "linked"} \cup Images
    PROVE  Fact(o, what) \in Facts /\ Fact(o, what).obj = o
BY DEF Fact, Facts

LEMMA InsertType ==
    ASSUME NEW S \in SUBSET Objects
    PROVE  /\ Insert(S) \subseteq Facts
           /\ \A f \in Insert(S) : f.obj \in S /\ f = Exists(f.obj)
BY DEF Insert, Exists, Fact, Facts

LEMMA SetType ==
    ASSUME NEW o \in Objects, NEW what \in {"exists", "linked"} \cup Images, NEW ctx
    PROVE  /\ Set(o, what, ctx) \subseteq Facts
           /\ \A f \in Set(o, what, ctx) : f.obj = o /\ Exists(o) \in ctx
BY FactType DEF Set

LEMMA AfterDeleteGrounded ==
    ASSUME NEW ctx, NEW rows, Grounded(ctx)
    PROVE  Grounded(AfterDelete(ctx, rows)) /\ AfterDelete(ctx, rows) \subseteq ctx
BY DEF Grounded, AfterDelete, Exists, Fact

\* A step that only adds facts of Savers that may still add some, and saves all
\* or nothing, keeps what the invariant says of the context and the store.
LEMMA Growth ==
    ASSUME Traceable, Fresh,
           context \subseteq context', Grounded(context)',
           \A f \in context' : f \in context \/ f.obj.from \in {started} \cup late',
           late \subseteq late',
           UNCHANGED <<started, running, cleanup>>,
           store' = store \/ store' = context'
    PROVE  Traceable' /\ Fresh'
<1>1. Traceable'
    BY DEF Traceable, Grounded
<1>2. Fresh'
    BY <1>1 DEF Fresh, Traceable, Grounded
<1> QED
    BY <1>1, <1>2

LEMMA ErrorHandlingType ==
    ASSUME TypeOK, Chosen, ErrorHandling
    PROVE  /\ errorPresented' \in BOOLEAN /\ alert' \in BOOLEAN
           /\ alert' => projectID # NoProject
BY DEF TypeOK, Chosen, ErrorHandling

LEMMA FailType ==
    ASSUME TypeOK, Chosen, NEW k \in 1..started, NEW thrown \in BOOLEAN
    PROVE  /\ Fail(k, thrown) \in [Savers -> [project : Projects \cup {NoProject},
                                              errorThrown : BOOLEAN, failed : BOOLEAN]]
           /\ \A j \in 1..started : Fail(k, thrown)[j].project = saver[j].project
<1>1. 1..started \subseteq Savers
    BY SaverAssumption DEF TypeOK, Savers
<1>2. saver \in [Savers -> [project : Projects \cup {NoProject}, errorThrown : BOOLEAN,
                            failed : BOOLEAN]]
    BY DEF TypeOK
<1> QED
    BY <1>1, <1>2 DEF Fail

\* postError and its direct variant touch the Saver's flags and the alert.
LEMMA PostType ==
    ASSUME TypeOK, Chosen, NEW k \in 1..started, PostError(k) \/ PostDirectly(k),
           UNCHANGED <<projectID, started>>
    PROVE  /\ saver' \in [Savers -> [project : Projects \cup {NoProject},
                                     errorThrown : BOOLEAN, failed : BOOLEAN]]
           /\ errorPresented' \in BOOLEAN /\ alert' \in BOOLEAN
           /\ Chosen'
<1>0. saver[k].errorThrown \in BOOLEAN
    BY SaverAssumption DEF TypeOK, Savers
<1>1. CASE PostError(k)
    <2>1. saver' = Fail(k, TRUE)
        BY <1>1 DEF PostError
    <2>2. CASE saver[k].errorThrown
        <3>1. UNCHANGED <<errorPresented, alert>>
            BY <1>1, <2>2 DEF PostError
        <3> QED
            BY <2>1, <3>1, FailType DEF Chosen, TypeOK
    <2>3. CASE ~saver[k].errorThrown
        <3>1. ErrorHandling
            BY <1>1, <2>3 DEF PostError
        <3> QED
            BY <2>1, <3>1, FailType, ErrorHandlingType DEF Chosen
    <2> QED
        BY <2>2, <2>3
<1>2. CASE PostDirectly(k)
    <2>1. saver' = Fail(k, saver[k].errorThrown) /\ ErrorHandling
        BY <1>2 DEF PostDirectly
    <2> QED
        BY <1>0, <2>1, FailType, ErrorHandlingType DEF Chosen
<1> QED
    BY <1>1, <1>2

-----------------------------------------------------------------------------
(* Starting a download *)

LEMMA StartSaverStep ==
    ASSUME SaverInv, NEW p \in Projects, NEW ctx \in SUBSET context, NEW rows, Grounded(ctx),
           StartSaver(p, ctx, rows), UNCHANGED <<done, block, background, withheld>>,
           cleanup' \/ AfterDelete(ctx, rows) = {},
           alert' = FALSE
    PROVE  /\ started' \in 0..MaxSavers /\ running' \in BOOLEAN /\ late' \subseteq 0..MaxSavers
           /\ saver' \in [Savers -> [project : Projects \cup {NoProject},
                                     errorThrown : BOOLEAN, failed : BOOLEAN]]
           /\ inflight' \subseteq Requests /\ context' \subseteq Facts /\ store' \subseteq Facts
           /\ started' = started + 1
           /\ Chosen' /\ Requested' /\ Traceable' /\ Fresh'
<1> DEFINE k == started + 1
           o == Object("project", p, k)
<1>1. /\ started \in Nat /\ k \in Savers /\ k \in 0..MaxSavers /\ started' = k
      /\ 1..started \subseteq Savers /\ 1..k = 1..started \cup {k}
    BY SaverAssumption DEF StartSaver, SaverInv, TypeOK, Savers
<1>2. /\ saver' \in [Savers -> [project : Projects \cup {NoProject},
                                errorThrown : BOOLEAN, failed : BOOLEAN]]
      /\ saver'[k].project = p
      /\ \A j \in 1..started : saver'[j] = saver[j]
    BY <1>1 DEF StartSaver, SaverInv, TypeOK
<1>3. Chosen'
    BY <1>1, <1>2 DEF Chosen, SaverInv
<1>4. o \in Objects /\ o.from = k
    BY <1>1, NamesOf DEF Object, Objects
<1>5. Ask("project", o) \in Requests /\ Ask("project", o).obj = o /\ Ask("project", o).kind = "project"
    BY <1>4, RequestType
<1>6. inflight' = inflight \cup {Ask("project", o)}
    BY DEF StartSaver
<1>7. late' \subseteq 0..MaxSavers
    BY <1>1, SaverAssumption DEF StartSaver, Savers
<1>8. \A j \in 1..started : Outstanding(j) # {} => j \in late'
    BY DEF StartSaver
<1>9. Requested'
    <2>1. ASSUME NEW r \in inflight \cup done
          PROVE  r.obj.from \in 1..k /\ r.obj.from \in late'
        <3>1. r.obj.from \in 1..started
            BY DEF SaverInv, Requested
        <3>2. r \in Outstanding(r.obj.from)
            BY DEF Outstanding
        <3> QED
            BY <1>1, <1>8, <3>1, <3>2
    <2>2. ASSUME block # NoBlock
          PROVE  block.from \in late' /\ \A x \in block.rest : x.from = block.from
        <3>1. block.from \in 1..started /\ \A x \in block.rest : x.from = block.from
            BY <2>2 DEF SaverInv, Requested, TypeOK
        <3>2. block \in Outstanding(block.from)
            BY <2>2 DEF Outstanding
        <3> QED
            BY <1>8, <3>1, <3>2
    <2>3. \A r \in inflight' : r.kind = "image" => r.image \in Images
        BY <1>5, <1>6 DEF SaverInv, Requested
    <2>4. \A r \in done' : r.image \in Images
        BY DEF SaverInv, Requested
    <2>5. \A r \in inflight' \cup done' : r.obj.from \in 1..k /\ r.obj.from \in late' \cup {k}
        BY <1>1, <1>4, <1>5, <1>6, <2>1
    <2>6. \A x \in withheld : x.from \in 1..k
        BY <1>1 DEF SaverInv, Requested
    <2> QED
        BY <1>1, <2>2, <2>3, <2>4, <2>5, <2>6 DEF Requested
<1>10. context' = AfterDelete(ctx, rows) /\ store' = context'
    BY DEF StartSaver, SaveContext
<1>11. Grounded(context') /\ context' \subseteq ctx
    BY <1>10, AfterDeleteGrounded
<1>12. Traceable'
    BY <1>10, <1>11 DEF Traceable, Grounded
<1>13. Fresh'
    BY <1>10, <1>11 DEF Fresh, Grounded
<1>14. inflight' \subseteq Requests /\ context' \subseteq Facts /\ store' \subseteq Facts
    BY <1>5, <1>6, <1>10, <1>11 DEF SaverInv, TypeOK
<1>15. running' \in BOOLEAN
    BY DEF StartSaver
<1> QED
    BY <1>1, <1>2, <1>3, <1>7, <1>9, <1>12, <1>13, <1>14, <1>15

LEMMA StartProjectStep ==
    ASSUME SaverInv, NEW p \in Projects, StartProject(p)
    PROVE  SaverInv'
<1> USE DEF StartProject
<1>1. CASE p # projectID
    <2> DEFINE ctx == AfterDelete(context, store)
    <2>1. Grounded(ctx) /\ ctx \in SUBSET context
        BY AfterDeleteGrounded DEF SaverInv, Traceable
    <2>2. AfterDelete(ctx, ctx) = {}
        BY <2>1 DEF AfterDelete, Grounded
    <2>3. StartSaver(p, ctx, ctx) /\ files' = {} /\ alert' = FALSE
        BY <1>1 DEF DownloadProject, SaverInv, TypeOK
    <2>4. /\ started' \in 0..MaxSavers /\ running' \in BOOLEAN /\ late' \subseteq 0..MaxSavers
          /\ saver' \in [Savers -> [project : Projects \cup {NoProject},
                                    errorThrown : BOOLEAN, failed : BOOLEAN]]
          /\ inflight' \subseteq Requests /\ context' \subseteq Facts /\ store' \subseteq Facts
          /\ started' = started + 1
          /\ Chosen' /\ Requested' /\ Traceable' /\ Fresh'
        BY <2>1, <2>2, <2>3, StartSaverStep
    <2>5. TypeOK'
        <3>1. 1..started \subseteq 1..started'
            BY <2>4 DEF SaverInv, TypeOK
        <3> QED
            BY <2>3, <2>4, <3>1 DEF SaverInv, TypeOK, listVars
    <2> QED
        BY <2>4, <2>5 DEF SaverInv
<1>2. CASE p = projectID
    <2>1. UNCHANGED <<saverVars, inflight, dataVars>>
        BY <1>2
    <2>2. TypeOK'
        BY <2>1 DEF SaverInv, TypeOK, saverVars, dataVars, listVars
    <2>3. Chosen'
        BY <2>1 DEF SaverInv, Chosen, saverVars
    <2>4. Requested' /\ Traceable' /\ Fresh'
        BY <2>1 DEF SaverInv, Requested, Traceable, Fresh, Grounded, saverVars, dataVars
    <2> QED
        BY <2>2, <2>3, <2>4 DEF SaverInv
<1> QED
    BY <1>1, <1>2

LEMMA RetryStep ==
    ASSUME SaverInv, Retry
    PROVE  SaverInv'
<1> USE DEF Retry
<1>1. projectID \in Projects /\ Grounded(context)
    BY DEF SaverInv, TypeOK, Chosen, Traceable
<1>2. /\ started' \in 0..MaxSavers /\ running' \in BOOLEAN /\ late' \subseteq 0..MaxSavers
      /\ saver' \in [Savers -> [project : Projects \cup {NoProject},
                                errorThrown : BOOLEAN, failed : BOOLEAN]]
      /\ inflight' \subseteq Requests /\ context' \subseteq Facts /\ store' \subseteq Facts
      /\ started' = started + 1
      /\ Chosen' /\ Requested' /\ Traceable' /\ Fresh'
    BY <1>1, StartSaverStep
<1>3. 1..started \subseteq 1..started'
    BY <1>2 DEF SaverInv, TypeOK
<1>4. TypeOK'
    BY <1>2, <1>3 DEF SaverInv, TypeOK, listVars
<1> QED
    BY <1>2, <1>4 DEF SaverInv

LEMMA CleanUpStep ==
    ASSUME SaverInv, CleanUp
    PROVE  SaverInv'
<1>1. context' = AfterDelete(context, store) /\ store' = context'
    BY DEF CleanUp, SaveContext
<1>2. Grounded(context') /\ context' \subseteq context
    BY <1>1, AfterDeleteGrounded DEF SaverInv, Traceable
<1>3. Traceable'
    BY <1>1, <1>2 DEF Traceable, Grounded
<1>4. \A f \in context' : Exists(f.obj) \notin store
    BY <1>1 DEF AfterDelete
<1>5. Fresh'
    BY <1>2, <1>4 DEF SaverInv, Fresh, CleanUp, saverVars
<1>6. TypeOK' /\ Chosen' /\ Requested'
    BY <1>1, <1>2 DEF SaverInv, TypeOK, Chosen, Requested, CleanUp, saverVars, netVars, listVars, uiVars
<1> QED
    BY <1>3, <1>5, <1>6 DEF SaverInv

-----------------------------------------------------------------------------
(* Replies, loops and images *)

\* An answered request belongs to a Saver that was started and may still add.
LEMMA AnsweredFrom ==
    ASSUME SaverInv, NEW kind, NEW k \in Savers, NEW r \in Answered(kind, k)
    PROVE  /\ r \in inflight /\ r \in Requests /\ r.kind = kind /\ r.obj \in Objects
           /\ r.obj.from = k /\ k \in 1..started /\ k \in {started} \cup late
BY DEF Answered, SaverInv, Requested, TypeOK, Requests

\* What a step leaves of the requests, when it takes some and asks for others.
LEMMA RequestedStep ==
    ASSUME SaverInv, UNCHANGED <<started, late>>,
           \A r \in inflight' : r \in inflight \/
               /\ r.obj.from \in 1..started /\ r.obj.from \in {started} \cup late
               /\ r.kind = "image" => r.image \in Images,
           \A r \in done' : r \in done \/ (r \in inflight /\ r.kind = "image"),
           UNCHANGED <<block, withheld>>
    PROVE  Requested'
BY DEF SaverInv, Requested

\* A reply that is an error: it is taken, and posted.
LEMMA PostStep ==
    ASSUME SaverInv, NEW k \in 1..started, PostError(k) \/ PostDirectly(k),
           NEW r, inflight' = inflight \ {r},
           UNCHANGED <<projectID, started, running, late, done, block, background, cleanup,
                       withheld, context, store, files, listVars, screen, visits>>
    PROVE  SaverInv'
<1>1. /\ saver' \in [Savers -> [project : Projects \cup {NoProject},
                                errorThrown : BOOLEAN, failed : BOOLEAN]]
      /\ errorPresented' \in BOOLEAN /\ alert' \in BOOLEAN
      /\ Chosen'
    BY PostType DEF SaverInv
<1>2. TypeOK'
    BY <1>1 DEF SaverInv, TypeOK, listVars
<1>3. Requested'
    BY RequestedStep
<1>4. Traceable' /\ Fresh'
    BY DEF SaverInv, Traceable, Grounded, Fresh
<1> QED
    BY <1>1, <1>2, <1>3, <1>4 DEF SaverInv

LEMMA ProjectReplyStep ==
    ASSUME SaverInv, NEW k \in Savers, ProjectReply(k)
    PROVE  SaverInv'
<1> DEFINE o == ProjectObject(k)
<1>1. PICK r \in Answered("project", k) :
        /\ \/ /\ context' = context \cup Insert({o})
              /\ inflight' = (inflight \ {r}) \cup {Ask("coins", o), Ask("organisation", o)} \cup
                     {q \in {Ask("locations", o)} : ~saver[k].errorThrown}
              /\ UNCHANGED <<saver, errorPresented, alert>>
           \/ /\ inflight' = inflight \ {r}
              /\ PostDirectly(k)
              /\ UNCHANGED context
        /\ UNCHANGED <<projectID, started, running, late, done, block, background,
                       cleanup, withheld,
                       store, files, listVars, screen, visits>>
    BY DEF ProjectReply
<1>2. k \in 1..started /\ k \in {started} \cup late
    BY AnsweredFrom
<1>3. o \in Objects /\ o.from = k
    BY <1>2, ObjectsOf DEF SaverInv
<1>4. /\ Ask("coins", o) \in Requests /\ Ask("coins", o).obj = o /\ Ask("coins", o).kind = "coins"
      /\ Ask("locations", o) \in Requests /\ Ask("locations", o).obj = o
      /\ Ask("locations", o).kind = "locations"
      /\ Ask("organisation", o) \in Requests /\ Ask("organisation", o).obj = o
      /\ Ask("organisation", o).kind = "organisation"
    BY <1>3, RequestType
<1>5. CASE /\ context' = context \cup Insert({o})
           /\ inflight' = (inflight \ {r}) \cup {Ask("coins", o), Ask("organisation", o)} \cup
                  {q \in {Ask("locations", o)} : ~saver[k].errorThrown}
           /\ UNCHANGED <<saver, errorPresented, alert>>
    <2>1. Insert({o}) \subseteq Facts /\ \A f \in Insert({o}) : f.obj = o /\ f = Exists(o)
        BY <1>3, InsertType
    <2>2. inflight' \subseteq Requests /\ context' \subseteq Facts
        BY <1>4, <1>5, <2>1 DEF SaverInv, TypeOK
    <2>3. TypeOK' /\ Chosen'
        BY <1>1, <1>5, <2>2 DEF SaverInv, TypeOK, Chosen, listVars
    <2>4. Requested'
        BY <1>1, <1>2, <1>3, <1>4, <1>5, RequestedStep
    <2>5. Grounded(context)'
        BY <1>5, <2>1 DEF SaverInv, Traceable, Grounded
    <2>6. Traceable' /\ Fresh'
        BY <1>1, <1>2, <1>3, <1>5, <2>1, <2>5, Growth DEF SaverInv
    <2> QED
        BY <2>3, <2>4, <2>6 DEF SaverInv
<1>6. CASE inflight' = inflight \ {r} /\ PostDirectly(k) /\ UNCHANGED context
    BY <1>1, <1>2, <1>6, PostStep
<1> QED
    BY <1>1, <1>5, <1>6

LEMMA ListType ==
    ASSUME TypeOK, Chosen, NEW k \in 1..started, NEW kind, NEW S \in SUBSET ListObjects(kind, k)
    PROVE  /\ S \subseteq Objects /\ \A o \in S : o.from = k
           /\ WithQuizzes(S) \subseteq Objects /\ \A o \in WithQuizzes(S) : o.from = k
<1>1. S \subseteq Objects /\ \A o \in S : o.from = k
    BY ObjectsOf DEF ListObjects
<1>2. \A o \in S : QuizObject(o) \in Objects /\ QuizObject(o).from = k
    BY <1>1, QuizObjectType
<1> QED
    BY <1>1, <1>2 DEF WithQuizzes

LEMMA ListReplyStep ==
    ASSUME SaverInv, NEW k \in Savers, NEW kind \in {"coins", "locations"}, ListReply(kind, k)
    PROVE  SaverInv'
<1>1. PICK r \in Answered(kind, k) :
        /\ inflight' = inflight \ {r}
        /\ \/ \E objects \in SUBSET ListObjects(kind, k) :
                 /\ context' = context \cup Insert(objects)
                 /\ block' = [kind |-> kind, from |-> k, rest |-> objects]
                 /\ withheld' = withheld \cup WithQuizzes(ListObjects(kind, k) \ objects)
                 /\ UNCHANGED <<saver, errorPresented, alert>>
           \/ /\ PostError(k)
              /\ UNCHANGED <<context, block, withheld>>
        /\ UNCHANGED <<projectID, started, running, late, done, background, cleanup, store,
                       files, listVars, screen, visits>>
    BY DEF ListReply
<1>2. k \in 1..started /\ k \in {started} \cup late
    BY AnsweredFrom
<1>4. ASSUME NEW objects \in SUBSET ListObjects(kind, k),
             context' = context \cup Insert(objects),
             block' = [kind |-> kind, from |-> k, rest |-> objects],
             withheld' = withheld \cup WithQuizzes(ListObjects(kind, k) \ objects),
             UNCHANGED <<saver, errorPresented, alert>>
      PROVE  SaverInv'
    <2>0. objects \subseteq Objects /\ \A o \in objects : o.from = k
        BY <1>2, ListType DEF SaverInv
    <2>1. Insert(objects) \subseteq Facts /\ \A f \in Insert(objects) : f.obj \in objects /\ f = Exists(f.obj)
        BY <2>0, InsertType
    <2> DEFINE lost == WithQuizzes(ListObjects(kind, k) \ objects)
    <2>a. lost \subseteq Objects /\ \A o \in lost : o.from = k
        BY <1>2, ListType DEF SaverInv
    <2> HIDE DEF lost
    <2>2. /\ context' \subseteq Facts
          /\ block' \in [kind : {"coins", "locations"}, from : 1..started, rest : SUBSET Objects]
          /\ withheld' \subseteq Objects
        BY <1>2, <1>4, <2>0, <2>1, <2>a DEF SaverInv, TypeOK, lost
    <2>3. TypeOK' /\ Chosen'
        BY <1>1, <1>4, <2>2 DEF SaverInv, TypeOK, Chosen, listVars
    <2>4. Requested'
        BY <1>1, <1>2, <1>4, <2>0, <2>a DEF SaverInv, Requested, lost
    <2>5. Grounded(context)'
        BY <1>4, <2>1 DEF SaverInv, Traceable, Grounded
    <2>6. Traceable' /\ Fresh'
        BY <1>1, <1>2, <1>4, <2>0, <2>1, <2>5, Growth DEF SaverInv
    <2> QED
        BY <2>3, <2>4, <2>6 DEF SaverInv
<1>5. CASE PostError(k) /\ UNCHANGED <<context, block, withheld>>
    BY <1>1, <1>2, <1>5, PostStep
<1> QED
    BY <1>1, <1>4, <1>5

\* A reply with no document: at most the context is saved.
LEMMA BlankStep ==
    ASSUME SaverInv, NEW k \in 1..started, NEW o \in Objects, o.from = k, NEW r,
           inflight' = inflight \ {r}, withheld' = withheld \cup {o},
           context' = context, store' = store \/ store' = context',
           UNCHANGED <<projectID, saver, started, running, late, done, block, background, cleanup,
                       files, listVars, screen, visits, errorPresented, alert>>
    PROVE  SaverInv'
<1>1. TypeOK' /\ Chosen'
    BY DEF SaverInv, TypeOK, Chosen, listVars
<1>2. Requested'
    BY DEF SaverInv, Requested
<1>3. Traceable' /\ Fresh'
    BY Growth DEF SaverInv, Traceable, Grounded
<1> QED
    BY <1>1, <1>2, <1>3 DEF SaverInv

LEMMA QuizReplyStep ==
    ASSUME SaverInv, NEW k \in Savers, QuizReply(k)
    PROVE  SaverInv'
<1>1. PICK r \in Answered("quiz", k) :
        /\ inflight' = inflight \ {r}
        /\ \/ LET quiz == QuizObject(r.obj)
                  ctx == context \cup Insert({quiz}) IN
              /\ SaveContext(IF Exists(r.obj) \in ctx THEN ctx \cup Set(quiz, "linked", ctx)
                                                      ELSE ctx)
              /\ UNCHANGED <<saver, withheld, errorPresented, alert>>
           \/ /\ SaveContext(context)
              /\ withheld' = withheld \cup {QuizObject(r.obj)}
              /\ UNCHANGED <<saver, errorPresented, alert>>
           \/ /\ PostError(k)
              /\ UNCHANGED <<context, store, withheld>>
        /\ UNCHANGED <<projectID, started, running, late, done, block, background, cleanup,
                       files, listVars, screen, visits>>
    BY DEF QuizReply
<1> DEFINE quiz == QuizObject(r.obj)
           ctx == context \cup Insert({quiz})
<1>2. k \in 1..started /\ k \in {started} \cup late
    BY AnsweredFrom
<1>3. quiz \in Objects /\ quiz.from = k
    BY AnsweredFrom, QuizObjectType
<1>4. CASE /\ SaveContext(IF Exists(r.obj) \in ctx THEN ctx \cup Set(quiz, "linked", ctx) ELSE ctx)
           /\ UNCHANGED <<saver, withheld, errorPresented, alert>>
    <2>1. Insert({quiz}) \subseteq Facts /\ \A f \in Insert({quiz}) : f.obj = quiz /\ f = Exists(quiz)
        BY <1>3, InsertType
    <2>2. /\ Set(quiz, "linked", ctx) \subseteq Facts
          /\ \A f \in Set(quiz, "linked", ctx) : f.obj = quiz /\ Exists(quiz) \in ctx
        BY <1>3, SetType
    <2>3. PICK more \in SUBSET Set(quiz, "linked", ctx) : context' = ctx \cup more /\ store' = context'
        <3>1. CASE Exists(r.obj) \in ctx
            BY <1>4, <3>1 DEF SaveContext
        <3>2. CASE Exists(r.obj) \notin ctx
            <4>1. context' = ctx \cup {} /\ store' = context'
                BY <1>4, <3>2 DEF SaveContext
            <4> QED
                BY <4>1
        <3> QED
            BY <3>1, <3>2
    <2>4. /\ context \subseteq context' /\ context' \subseteq Facts
          /\ \A f \in context' : f \in context \/ (f.obj = quiz /\ Exists(quiz) \in context')
        BY <2>1, <2>2, <2>3 DEF SaverInv, TypeOK
    <2> HIDE DEF quiz, ctx
    <2>5. TypeOK' /\ Chosen'
        BY <1>1, <1>4, <2>3, <2>4 DEF SaverInv, TypeOK, Chosen, listVars
    <2>6. Requested'
        BY <1>1, <1>4, RequestedStep
    <2>7. Grounded(context)'
        BY <2>4 DEF SaverInv, Traceable, Grounded
    <2>8. Traceable' /\ Fresh'
        BY <1>1, <1>2, <1>3, <2>3, <2>4, <2>7, Growth DEF SaverInv
    <2> QED
        BY <2>5, <2>6, <2>8 DEF SaverInv
<1>5. CASE /\ SaveContext(context) /\ withheld' = withheld \cup {quiz}
           /\ UNCHANGED <<saver, errorPresented, alert>>
    BY <1>1, <1>2, <1>3, <1>5, BlankStep DEF SaveContext
<1>6. CASE PostError(k) /\ UNCHANGED <<context, store, withheld>>
    BY <1>1, <1>2, <1>6, PostStep
<1> QED
    BY <1>1, <1>4, <1>5, <1>6

LEMMA OrganisationReplyStep ==
    ASSUME SaverInv, NEW k \in Savers, OrganisationReply(k)
    PROVE  SaverInv'
<1> DEFINE o == OrganisationObject(k)
           ctx == context \cup Insert({o})
<1>1. PICK r \in Answered("organisation", k) :
        /\ \/ /\ SaveContext(IF Exists(ProjectObject(k)) \in ctx THEN ctx \cup Set(o, "linked", ctx)
                                                                 ELSE ctx)
              /\ inflight' = (inflight \ {r}) \cup ImageRequests(o)
              /\ UNCHANGED <<saver, withheld, errorPresented, alert>>
           \/ /\ inflight' = inflight \ {r}
              /\ withheld' = withheld \cup {o}
              /\ UNCHANGED <<saver, context, store, errorPresented, alert>>
           \/ /\ inflight' = inflight \ {r}
              /\ PostDirectly(k)
              /\ UNCHANGED <<context, store, withheld>>
        /\ UNCHANGED <<projectID, started, running, late, done, block, background, cleanup,
                       files, listVars, screen, visits>>
    BY DEF OrganisationReply
<1>2. k \in 1..started /\ k \in {started} \cup late
    BY AnsweredFrom
<1>3. o \in Objects /\ o.from = k
    BY <1>2, ObjectsOf DEF SaverInv
<1>4. CASE /\ SaveContext(IF Exists(ProjectObject(k)) \in ctx THEN ctx \cup Set(o, "linked", ctx)
                                                                 ELSE ctx)
           /\ inflight' = (inflight \ {r}) \cup ImageRequests(o)
           /\ UNCHANGED <<saver, withheld, errorPresented, alert>>
    <2>1. Insert({o}) \subseteq Facts /\ \A f \in Insert({o}) : f.obj = o /\ f = Exists(o)
        BY <1>3, InsertType
    <2>2. /\ Set(o, "linked", ctx) \subseteq Facts
          /\ \A f \in Set(o, "linked", ctx) : f.obj = o /\ Exists(o) \in ctx
        BY <1>3, SetType
    <2>3. PICK more \in SUBSET Set(o, "linked", ctx) : context' = ctx \cup more /\ store' = context'
        <3>1. CASE Exists(ProjectObject(k)) \in ctx
            BY <1>4, <3>1 DEF SaveContext
        <3>2. CASE Exists(ProjectObject(k)) \notin ctx
            <4>1. context' = ctx \cup {} /\ store' = context'
                BY <1>4, <3>2 DEF SaveContext
            <4> QED
                BY <4>1
        <3> QED
            BY <3>1, <3>2
    <2>4. /\ context \subseteq context' /\ context' \subseteq Facts
          /\ \A f \in context' : f \in context \/ (f.obj = o /\ Exists(o) \in context')
        BY <2>1, <2>2, <2>3 DEF SaverInv, TypeOK
    <2>5. /\ ImageRequests(o) \subseteq Requests
          /\ \A q \in ImageRequests(o) : q.obj = o /\ q.image \in Images
        BY <1>3, RequestType
    <2> HIDE DEF o, ctx
    <2>6. TypeOK' /\ Chosen'
        BY <1>1, <1>4, <2>3, <2>4, <2>5 DEF SaverInv, TypeOK, Chosen, listVars
    <2>7. Requested'
        BY <1>1, <1>2, <1>3, <1>4, <2>5, RequestedStep
    <2>8. Grounded(context)'
        BY <2>4 DEF SaverInv, Traceable, Grounded
    <2>9. Traceable' /\ Fresh'
        BY <1>1, <1>2, <1>3, <2>3, <2>4, <2>8, Growth DEF SaverInv
    <2> QED
        BY <2>6, <2>7, <2>9 DEF SaverInv
<1>5. CASE /\ inflight' = inflight \ {r} /\ withheld' = withheld \cup {o}
           /\ UNCHANGED <<saver, context, store, errorPresented, alert>>
    BY <1>1, <1>2, <1>3, <1>5, BlankStep
<1>6. CASE inflight' = inflight \ {r} /\ PostDirectly(k) /\ UNCHANGED <<context, store, withheld>>
    BY <1>1, <1>2, <1>6, PostStep
<1> QED
    BY <1>1, <1>4, <1>5, <1>6

\* The process ends: nothing is left of it but the store.
LEMMA EndsStep ==
    ASSUME SaverInv, Ends
    PROVE  SaverInv'
<1>1. TypeOK' /\ Chosen'
    BY DEF Ends, SaverInv, TypeOK, Chosen
<1>2. Requested' /\ Traceable' /\ Fresh'
    BY DEF Ends, SaverInv, Requested, Traceable, Grounded, Fresh
<1> QED
    BY <1>1, <1>2 DEF SaverInv

LEMMA LoopTurnStep ==
    ASSUME SaverInv, LoopTurn
    PROVE  SaverInv'
<1> DEFINE k == block.from
<1>1. PICK o \in block.rest, quizAsked \in QuizAsked(k) :
        IF o.kind = "location" /\ o.id \in Malformed
        THEN Ends
        ELSE /\ context' = IF Exists(ProjectObject(k)) \in context
                           THEN context \cup Set(o, "linked", context) ELSE context
             /\ inflight' = inflight \cup ImageRequests(o) \cup
                                {q \in {Ask("quiz", o)} : o.kind = "location" /\ quizAsked}
             /\ block' = [block EXCEPT !.rest = @ \ {o}]
             /\ UNCHANGED <<projectID, saverVars, done, background, cleanup, withheld, store,
                            files, listVars, uiVars>>
    BY DEF LoopTurn
<1>2. CASE Ends
    BY <1>2, EndsStep
<1>3. CASE /\ context' = IF Exists(ProjectObject(k)) \in context
                         THEN context \cup Set(o, "linked", context) ELSE context
           /\ inflight' = inflight \cup ImageRequests(o) \cup
                              {q \in {Ask("quiz", o)} : o.kind = "location" /\ quizAsked}
           /\ block' = [block EXCEPT !.rest = @ \ {o}]
           /\ UNCHANGED <<projectID, saverVars, done, background, cleanup, withheld, store, files,
                          listVars, uiVars>>
    <2>1. /\ block \in [kind : {"coins", "locations"}, from : 1..started, rest : SUBSET Objects]
          /\ k \in 1..started /\ k \in {started} \cup late
          /\ o \in Objects /\ o.from = k
          /\ \A x \in block.rest : x.from = k
        BY DEF LoopTurn, SaverInv, TypeOK, Requested
    <2>2. /\ block' \in [kind : {"coins", "locations"}, from : 1..started, rest : SUBSET Objects]
          /\ block'.from = k /\ \A x \in block'.rest : x.from = k
        BY <1>3, <2>1
    <2>3. /\ Set(o, "linked", context) \subseteq Facts
          /\ \A f \in Set(o, "linked", context) : f.obj = o /\ Exists(o) \in context
        BY <2>1, SetType
    <2>4. /\ Ask("quiz", o) \in Requests /\ Ask("quiz", o).obj = o /\ Ask("quiz", o).kind = "quiz"
          /\ ImageRequests(o) \subseteq Requests
          /\ \A q \in ImageRequests(o) : q.obj = o /\ q.image \in Images
        BY <2>1, RequestType
    <2>5. /\ context \subseteq context' /\ context' \subseteq Facts
          /\ \A f \in context' : f \in context \/ (f.obj = o /\ Exists(o) \in context)
        BY <1>3, <2>3 DEF SaverInv, TypeOK
    <2>6. inflight' \subseteq Requests
        BY <1>3, <2>4 DEF SaverInv, TypeOK
    <2>7. TypeOK' /\ Chosen'
        BY <1>3, <2>2, <2>5, <2>6 DEF SaverInv, TypeOK, Chosen, saverVars, listVars, uiVars
    <2>8. Requested'
        BY <1>3, <2>1, <2>2, <2>4 DEF SaverInv, Requested, saverVars
    <2>9. Grounded(context)'
        BY <2>5 DEF SaverInv, Traceable, Grounded
    <2>10. Traceable' /\ Fresh'
        BY <1>3, <2>1, <2>5, <2>9, Growth DEF SaverInv, saverVars
    <2> QED
        BY <2>7, <2>8, <2>10 DEF SaverInv
<1> QED
    BY <1>1, <1>2, <1>3

LEMMA LoopEndStep ==
    ASSUME SaverInv, LoopReturn \/ LoopEnd
    PROVE  SaverInv'
<1>1. /\ UNCHANGED <<projectID, saverVars, netVars, background, cleanup, withheld, files, listVars,
                     uiVars>>
      /\ block' = NoBlock /\ context' = context /\ (store' = store \/ store' = context')
    BY DEF LoopReturn, LoopEnd, SaveContext, dataVars
<1>2. TypeOK' /\ Chosen' /\ Requested'
    BY <1>1 DEF SaverInv, TypeOK, Chosen, Requested, saverVars, netVars, listVars, uiVars
<1>3. Traceable' /\ Fresh'
    BY <1>1, Growth DEF SaverInv, Traceable, Grounded, saverVars
<1> QED
    BY <1>2, <1>3 DEF SaverInv

LEMMA ImageArrivesStep ==
    ASSUME SaverInv, ImageArrives
    PROVE  SaverInv'
<1>1. PICK r \in inflight :
        /\ r.kind = "image"
        /\ inflight' = inflight \ {r}
        /\ done' = done \cup {r}
        /\ files' = files \cup {FileName(r.obj, r.image)}
        /\ UNCHANGED <<projectID, saverVars, block, background, cleanup, withheld, context, store,
                       listVars, uiVars>>
    BY DEF ImageArrives
<1>2. r \in Requests /\ r.obj \in Objects /\ r.obj.id \in Names /\ r.image \in Images
    BY <1>1 DEF SaverInv, TypeOK, Requested, Requests, Objects
<1>3. TypeOK' /\ Chosen'
    BY <1>1, <1>2 DEF SaverInv, TypeOK, Chosen, FileName, saverVars, listVars, uiVars
<1>4. Requested'
    BY <1>1, RequestedStep DEF saverVars
<1>5. Traceable' /\ Fresh'
    BY <1>1 DEF SaverInv, Traceable, Grounded, Fresh, saverVars
<1> QED
    BY <1>3, <1>4, <1>5 DEF SaverInv

LEMMA ImageFailsStep ==
    ASSUME SaverInv, ImageFails
    PROVE  SaverInv'
<1>1. PICK r \in inflight :
        /\ r.kind = "image"
        /\ inflight' = inflight \ {r}
        /\ files' \in {files} \cup
               {files \ {FileName(r.obj, r.image)} : d \in {x \in {TRUE} : DiskMayFail}}
        /\ saver' = Fail(r.obj.from, saver[r.obj.from].errorThrown)
        /\ background' = IF saver[r.obj.from].errorThrown THEN Idle
                         ELSE [kind |-> "checked", from |-> r.obj.from]
        /\ UNCHANGED <<projectID, started, running, late, done, block, cleanup, withheld, context,
                       store, listVars, uiVars>>
    BY DEF ImageFails
<1> DEFINE k == r.obj.from
<1>2. k \in 1..started /\ saver[k].errorThrown \in BOOLEAN
    BY SaverAssumption DEF SaverInv, TypeOK, Requested, Savers
<1>3. /\ saver' \in [Savers -> [project : Projects \cup {NoProject},
                                errorThrown : BOOLEAN, failed : BOOLEAN]]
      /\ \A j \in 1..started : saver'[j].project = saver[j].project
    BY <1>1, <1>2, FailType DEF SaverInv
<1>4. /\ files' \subseteq files
      /\ background' \in {Idle} \cup [kind : {"checked", "posted"}, from : 1..started]
    BY <1>1, <1>2
<1>5. TypeOK' /\ Chosen'
    BY <1>1, <1>3, <1>4 DEF SaverInv, TypeOK, Chosen, listVars, uiVars
<1>6. Requested'
    BY <1>1, RequestedStep
<1>7. Traceable' /\ Fresh'
    BY <1>1 DEF SaverInv, Traceable, Grounded, Fresh
<1> QED
    BY <1>5, <1>6, <1>7 DEF SaverInv

LEMMA BackgroundPostStep ==
    ASSUME SaverInv, BackgroundPost
    PROVE  SaverInv'
<1> DEFINE k == background.from
<1>1. background \in [kind : {"checked", "posted"}, from : 1..started]
    BY DEF SaverInv, TypeOK, BackgroundPost, Idle
<1>2. /\ background' \in [kind : {"checked", "posted"}, from : 1..started]
      /\ k \in 1..started
      /\ saver' = Fail(k, TRUE)
    BY <1>1 DEF BackgroundPost
<1>3. /\ saver' \in [Savers -> [project : Projects \cup {NoProject},
                                errorThrown : BOOLEAN, failed : BOOLEAN]]
      /\ \A j \in 1..started : saver'[j].project = saver[j].project
    BY <1>2, FailType DEF SaverInv
<1>4. TypeOK' /\ Chosen'
    BY <1>2, <1>3 DEF SaverInv, TypeOK, Chosen, BackgroundPost, netVars, dataVars, listVars, uiVars
<1>5. Requested' /\ Traceable' /\ Fresh'
    BY DEF SaverInv, Requested, Traceable, Grounded, Fresh, BackgroundPost, netVars, dataVars
<1> QED
    BY <1>4, <1>5 DEF SaverInv

LEMMA DeliverStep ==
    ASSUME SaverInv, Deliver
    PROVE  SaverInv'
<1>1. /\ errorPresented' \in BOOLEAN /\ alert' \in BOOLEAN
      /\ alert' => projectID # NoProject
    BY ErrorHandlingType DEF Deliver, SaverInv
<1>2. TypeOK' /\ Chosen'
    BY <1>1 DEF SaverInv, TypeOK, Chosen, Deliver, saverVars, netVars, dataVars, listVars
<1>3. Requested' /\ Traceable' /\ Fresh'
    BY DEF SaverInv, Requested, Traceable, Grounded, Fresh, Deliver, saverVars, netVars, dataVars
<1> QED
    BY <1>2, <1>3 DEF SaverInv

LEMMA ImageDoneStep ==
    ASSUME SaverInv, ImageDone
    PROVE  SaverInv'
<1>1. PICK r \in done :
        /\ done' = done \ {r}
        /\ context' = context \cup Set(r.obj, r.image, context)
        /\ store' = store \/ store' = context'
        /\ UNCHANGED <<projectID, saverVars, inflight, block, background, cleanup, withheld, files,
                       listVars, uiVars>>
    BY DEF ImageDone, SaveContext
<1>2. /\ r.obj \in Objects /\ r.image \in Images
      /\ r.obj.from \in {started} \cup late
    BY DEF SaverInv, TypeOK, Requested, Requests
<1>3. /\ Set(r.obj, r.image, context) \subseteq Facts
      /\ \A f \in Set(r.obj, r.image, context) : f.obj = r.obj /\ Exists(r.obj) \in context
    BY <1>2, SetType
<1>4. /\ context \subseteq context' /\ context' \subseteq Facts /\ store' \subseteq Facts
      /\ \A f \in context' : f \in context \/ (f.obj = r.obj /\ Exists(r.obj) \in context)
    BY <1>1, <1>3 DEF SaverInv, TypeOK
<1>5. TypeOK' /\ Chosen'
    BY <1>1, <1>4 DEF SaverInv, TypeOK, Chosen, saverVars, listVars, uiVars
<1>6. Requested'
    BY <1>1, RequestedStep DEF saverVars
<1>7. Grounded(context)'
    BY <1>4 DEF SaverInv, Traceable, Grounded
<1>8. Traceable' /\ Fresh'
    BY <1>1, <1>2, <1>4, <1>7, Growth DEF SaverInv, saverVars
<1> QED
    BY <1>5, <1>6, <1>8 DEF SaverInv

-----------------------------------------------------------------------------
(* The rest of the application, and the theorems *)

\* Objects of a project list are inserted.
LEMMA ListedStep ==
    ASSUME SaverInv, NEW S \in SUBSET Objects, \A o \in S : o.from = 0,
           context' = context \cup Insert(S), late' = late \cup {0},
           UNCHANGED <<projectID, saver, started, running, netVars, block, background, cleanup,
                       withheld, store, files, uiVars>>,
           list' = list, fetching' \subseteq fetching,
           requests' \subseteq ((0..MaxVisits) \X Organisations), listed' \subseteq Projects
    PROVE  SaverInv'
<1>1. Insert(S) \subseteq Facts /\ \A f \in Insert(S) : f.obj \in S /\ f = Exists(f.obj)
    BY InsertType
<1>2. context' \subseteq Facts /\ late' \subseteq 0..MaxSavers
    BY <1>1, SaverAssumption DEF SaverInv, TypeOK
<1>3. TypeOK' /\ Chosen'
    BY <1>2 DEF SaverInv, TypeOK, Chosen, netVars, uiVars
<1>4. Requested'
    BY DEF SaverInv, Requested, netVars
<1>5. Grounded(context)'
    BY <1>1 DEF SaverInv, Traceable, Grounded
<1>6. Traceable' /\ Fresh'
    BY <1>1, <1>5, Growth DEF SaverInv
<1> QED
    BY <1>3, <1>4, <1>6 DEF SaverInv

LEMMA OrganisationsReplyStep ==
    ASSUME SaverInv, OrganisationsReply
    PROVE  SaverInv'
<1>1. PICK n \in fetching, found \in {Organisations, {}} :
        /\ fetching' = fetching \ {n}
        /\ requests' = requests \cup ({n} \X found)
        /\ context' = context \cup Insert({Object("organisation", p, 0) : p \in UNION found})
        /\ late' = late \cup {0}
        /\ UNCHANGED <<projectID, saver, started, running, netVars, block, background, cleanup,
                       withheld, store, files, list, listed, uiVars>>
    BY DEF OrganisationsReply
<1> DEFINE S == {Object("organisation", p, 0) : p \in UNION found}
<1>2. UNION found \subseteq Projects
    BY SaverAssumption
<1>3. S \subseteq Objects /\ \A o \in S : o.from = 0
    BY <1>2, NamesOf, SaverAssumption DEF Object, Objects
<1>4. n \in 0..MaxVisits /\ requests \subseteq ((0..MaxVisits) \X Organisations) /\ listed \subseteq Projects
    BY DEF SaverInv, TypeOK
<1>5. requests' \subseteq ((0..MaxVisits) \X Organisations)
    BY <1>1, <1>4
<1> HIDE DEF S
<1>6. context' = context \cup Insert(S)
    BY <1>1 DEF S
<1> QED
    BY <1>1, <1>3, <1>4, <1>5, <1>6, ListedStep

LEMMA ProjectsReplyStep ==
    ASSUME SaverInv, ProjectsReply
    PROVE  SaverInv'
<1> DEFINE Brings(r, found) ==
        /\ requests' = requests \ {r}
        /\ context' = context \cup Insert({Object("project", p, 0) : p \in found})
        /\ late' = late \cup {0}
        /\ listed' = found \/ listed' = listed
        /\ UNCHANGED <<projectID, saver, started, running, netVars, block, background, cleanup,
                       withheld, store, files, list, fetching, uiVars>>
<1>1. PICK r \in requests : \E found \in {r[2], {}} : Brings(r, found)
    BY DEF ProjectsReply
<1>2. PICK found \in {r[2], {}} : Brings(r, found)
    BY <1>1
<1> DEFINE S == {Object("project", p, 0) : p \in found}
<1>3. found \subseteq Projects /\ listed \subseteq Projects
      /\ requests \subseteq ((0..MaxVisits) \X Organisations)
    BY <1>2, SaverAssumption DEF SaverInv, TypeOK
<1>4. S \subseteq Objects /\ \A o \in S : o.from = 0
    BY <1>3, NamesOf, SaverAssumption DEF Object, Objects
<1> HIDE DEF S
<1>5. context' = context \cup Insert(S)
    BY <1>2 DEF S
<1> QED
    BY <1>2, <1>3, <1>4, <1>5, ListedStep

LEMMA ListFailsStep ==
    ASSUME SaverInv, ListFails
    PROVE  SaverInv'
<1>1. /\ errorPresented' \in BOOLEAN /\ alert' \in BOOLEAN
      /\ alert' => projectID # NoProject
    BY ErrorHandlingType DEF ListFails, SaverInv
<1>2. fetching' \subseteq fetching /\ requests' \subseteq requests
    BY DEF ListFails
<1>3. TypeOK' /\ Chosen'
    BY <1>1, <1>2 DEF SaverInv, TypeOK, Chosen, ListFails, saverVars, netVars, dataVars
<1>4. Requested' /\ Traceable' /\ Fresh'
    BY DEF SaverInv, Requested, Traceable, Grounded, Fresh, ListFails, saverVars, netVars, dataVars
<1> QED
    BY <1>3, <1>4 DEF SaverInv

LEMMA NavigationStep ==
    ASSUME SaverInv, OpenProjectList \/ Leave \/ Return \/ EnterBackground \/ UNCHANGED vars
    PROVE  SaverInv'
<1>1. /\ UNCHANGED <<projectID, saverVars, netVars, block, background, cleanup, withheld, files,
                     requests, errorPresented, alert>>
      /\ context' = context /\ (store' = store \/ store' = context')
    BY DEF OpenProjectList, Leave, Return, EnterBackground, SaveContext, dataVars, listVars, uiVars,
           vars
<1>2. screen' \in {"projects", "locations", "elsewhere"} /\ listed' \subseteq Projects
    BY DEF OpenProjectList, Leave, Return, EnterBackground, listVars, uiVars, vars, SaverInv, TypeOK
<1>3. /\ visits' \in 0..MaxVisits
      /\ list' \in 0..MaxVisits /\ fetching' \subseteq 0..MaxVisits
    <2>1. /\ visits' = visits \/ (visits < MaxVisits /\ visits' = visits + 1)
          /\ list' = list \/ list' = visits'
          /\ fetching' = fetching \/ fetching' = fetching \cup {visits'}
        BY DEF OpenProjectList, Leave, Return, EnterBackground, listVars, uiVars, vars
    <2>2. visits \in 0..MaxVisits /\ list \in 0..MaxVisits /\ fetching \subseteq 0..MaxVisits
        BY DEF SaverInv, TypeOK
    <2>3. visits' \in 0..MaxVisits
        BY <2>1, <2>2, SaverAssumption
    <2> QED
        BY <2>1, <2>2, <2>3
<1>4. TypeOK' /\ Chosen' /\ Requested'
    BY <1>1, <1>2, <1>3 DEF SaverInv, TypeOK, Chosen, Requested, saverVars, netVars
<1>5. Traceable' /\ Fresh'
    BY <1>1, Growth DEF SaverInv, Traceable, Grounded, saverVars
<1> QED
    BY <1>4, <1>5 DEF SaverInv

LEMMA SaverInvInit == Init => SaverInv
<1> SUFFICES ASSUME Init PROVE SaverInv
    OBVIOUS
<1>1. TypeOK
    <2>1. 0 \in 0..MaxSavers /\ 0 \in 0..MaxVisits
        BY SaverAssumption
    <2>2. saver \in [Savers -> [project : Projects \cup {NoProject},
                               errorThrown : BOOLEAN, failed : BOOLEAN]]
        BY DEF Init
    <2> QED
        BY <2>1, <2>2 DEF Init, TypeOK
<1>2. Chosen /\ Requested /\ Traceable /\ Fresh
    BY DEF Init, Chosen, Requested, Traceable, Grounded, Fresh
<1> QED
    BY <1>1, <1>2 DEF SaverInv

LEMMA SaverInvStep == SaverInv /\ [Next]_vars => SaverInv'
<1> SUFFICES ASSUME SaverInv, [Next]_vars PROVE SaverInv'
    OBVIOUS
<1>1. CASE MainQueue
    <2>1. ASSUME NEW k \in Savers, CoinsReply(k) \/ LocationsReply(k) PROVE SaverInv'
        BY <2>1, ListReplyStep DEF CoinsReply, LocationsReply
    <2>2. ASSUME NEW k \in Savers, ProjectReply(k) \/ QuizReply(k) \/ OrganisationReply(k)
          PROVE  SaverInv'
        BY <2>2, ProjectReplyStep, QuizReplyStep, OrganisationReplyStep
    <2>3. CASE LoopReturn \/ LoopTurn \/ LoopEnd
        BY <2>3, LoopTurnStep, LoopEndStep
    <2>4. CASE ImageDone \/ Deliver \/ CleanUp
        BY <2>4, ImageDoneStep, DeliverStep, CleanUpStep
    <2>5. CASE OrganisationsReply \/ ProjectsReply \/ ListFails
        BY <2>5, OrganisationsReplyStep, ProjectsReplyStep, ListFailsStep
    <2> QED
        BY <1>1, <2>1, <2>2, <2>3, <2>4, <2>5 DEF MainQueue
<1>2. CASE Background
    BY <1>2, ImageArrivesStep, ImageFailsStep, BackgroundPostStep DEF Background
<1>3. CASE Player
    <2>1. CASE Relaunch
        BY <2>1, EndsStep DEF Relaunch
    <2> QED
        BY <1>3, <2>1, StartProjectStep, RetryStep, NavigationStep DEF Player
<1>4. CASE UNCHANGED vars
    BY <1>4, NavigationStep
<1> QED
    BY <1>1, <1>2, <1>3, <1>4 DEF Next

\* The invariant holds throughout, for any projects and any bounds.
THEOREM DownloadInvariant == Spec => []SaverInv
BY SaverInvInit, SaverInvStep, PTL DEF Spec

\* Every variable of the download keeps its type: no reply, loop or image is
\* attributed to a Saver that was never started, and no Saver downloads
\* "no project".
THEOREM DownloadTypeCorrect == Spec => []TypeOK
<1>1. SaverInv => TypeOK
    BY DEF SaverInv
<1> QED
    BY <1>1, DownloadInvariant, PTL

\* A download starts from nothing, whatever was left unsaved in the context when
\* it began: the two deletions of deleteExistingProject together remove all of it.
THEOREM DownloadStartsFromNothing == Spec => []StartsFromNothing
<1>1. SaverInv => StartsFromNothing
    BY DEF SaverInv, Fresh, Traceable, StartsFromNothing
<1> QED
    BY <1>1, DownloadInvariant, PTL

-----------------------------------------------------------------------------
(* The steps of Next, by what they do to the download *)

\* The player's walks between screens, the events that are handled and the
\* replies to the project list: nothing of any Saver changes.
Bystander ==
    /\ UNCHANGED <<saver, started, running, inflight, done, block, cleanup, withheld, files>>
    /\ background' = background \/ background' = Idle
    /\ context \subseteq context'
    /\ \A f \in context' : f \in context \/ (f.obj.from = 0 /\ f.what = "exists")
    /\ store' = store \/ store' = context'

\* Something of Saver k fails: it is marked, and at most a request of it is gone.
Failing(k) ==
    /\ k \in 1..started /\ Outstanding(k) # {}
    /\ UNCHANGED <<started, running, done, block, cleanup, withheld, context, store>>
    /\ saver'[k].failed = TRUE
    /\ \A j \in 1..started :
           /\ saver'[j].project = saver[j].project
           /\ j # k => saver'[j] = saver[j]
           /\ ~saver'[j].errorThrown => ~saver[j].errorThrown
    /\ inflight' \subseteq inflight
    /\ \A r \in inflight : r \in inflight' \/
           (r.obj.from = k /\ (r.kind = "project" => ~(cleanup /\ k = started)))
    /\ background' = background \/ background' = Idle \/ background'.from = k
    /\ files' = files \/ DiskMayFail

LEMMA FailEffect ==
    ASSUME TypeOK, Chosen, NEW k \in 1..started, NEW thrown,
           thrown = TRUE \/ thrown = saver[k].errorThrown, saver' = Fail(k, thrown)
    PROVE  /\ saver'[k].failed = TRUE
           /\ \A j \in 1..started :
                  /\ saver'[j].project = saver[j].project
                  /\ j # k => saver'[j] = saver[j]
                  /\ ~saver'[j].errorThrown => ~saver[j].errorThrown
<1>1. 1..started \subseteq Savers
    BY SaverAssumption DEF TypeOK, Savers
<1>2. thrown \in BOOLEAN
    BY <1>1 DEF TypeOK
<1>3. saver \in [Savers -> [project : Projects \cup {NoProject}, errorThrown : BOOLEAN,
                            failed : BOOLEAN]]
    BY DEF TypeOK
<1>4. saver'[k] = [saver[k] EXCEPT !.failed = TRUE, !.errorThrown = thrown]
    BY <1>1, <1>3 DEF Fail
<1>5. saver'[k].failed = TRUE /\ saver'[k].project = saver[k].project /\ saver'[k].errorThrown = thrown
    BY <1>1, <1>3, <1>4
<1>6. \A j \in 1..started : j # k => saver'[j] = saver[j]
    BY <1>1, <1>3 DEF Fail
<1> QED
    BY <1>5, <1>6

\* postError in either form marks the Saver.
LEMMA PostEffect ==
    ASSUME SaverInv, NEW k \in 1..started, PostError(k) \/ PostDirectly(k),
           NEW r \in inflight, r.obj.from = k, r.kind = "project" => ~(cleanup /\ k = started),
           inflight' = inflight \ {r},
           UNCHANGED <<started, running, done, block, background, cleanup, withheld, context, store,
                       files>>
    PROVE  Failing(k)
<1>1. PICK thrown : /\ thrown = TRUE \/ thrown = saver[k].errorThrown
                    /\ saver' = Fail(k, thrown)
    BY DEF PostError, PostDirectly
<1>2. /\ saver'[k].failed = TRUE
      /\ \A j \in 1..started :
             /\ saver'[j].project = saver[j].project
             /\ j # k => saver'[j] = saver[j]
             /\ ~saver'[j].errorThrown => ~saver[j].errorThrown
    BY <1>1, FailEffect DEF SaverInv
<1>3. r \in Outstanding(k)
    BY DEF Outstanding
<1> QED
    BY <1>2, <1>3 DEF Failing

\* The replies that succeed.
ProjectArrives(k) ==
    \E r \in Answered("project", k) :
        /\ MayReply(k)
        /\ context' = context \cup Insert({ProjectObject(k)})
        /\ inflight' = (inflight \ {r}) \cup
               {Ask("coins", ProjectObject(k)), Ask("organisation", ProjectObject(k))} \cup
               {q \in {Ask("locations", ProjectObject(k))} : ~saver[k].errorThrown}
        /\ UNCHANGED <<saver, started, running, done, block, background, cleanup, withheld, store,
                       files>>

ListArrives(kind, k) ==
    \E r \in Answered(kind, k), objects \in SUBSET ListObjects(kind, k) :
        /\ MayReply(k)
        /\ inflight' = inflight \ {r}
        /\ context' = context \cup Insert(objects)
        /\ block' = [kind |-> kind, from |-> k, rest |-> objects]
        /\ withheld' = withheld \cup WithQuizzes(ListObjects(kind, k) \ objects)
        /\ UNCHANGED <<saver, started, running, done, background, cleanup, store, files>>

QuizArrives(k) ==
    \E r \in Answered("quiz", k) :
        LET quiz == QuizObject(r.obj)
            ctx == context \cup Insert({quiz}) IN
        /\ MayReply(k)
        /\ inflight' = inflight \ {r}
        /\ SaveContext(IF Exists(r.obj) \in ctx THEN ctx \cup Set(quiz, "linked", ctx) ELSE ctx)
        /\ UNCHANGED <<saver, started, running, done, block, background, cleanup, withheld, files>>

OrganisationArrives(k) ==
    \E r \in Answered("organisation", k) :
        LET o == OrganisationObject(k)
            ctx == context \cup Insert({o}) IN
        /\ MayReply(k)
        /\ inflight' = (inflight \ {r}) \cup ImageRequests(o)
        /\ SaveContext(IF Exists(ProjectObject(k)) \in ctx THEN ctx \cup Set(o, "linked", ctx) ELSE ctx)
        /\ UNCHANGED <<saver, started, running, done, block, background, cleanup, withheld, files>>

\* The quiz or the organisation does not come, and nothing fails.
Withholds(r, k) == IF r.kind = "quiz" THEN QuizObject(r.obj) ELSE OrganisationObject(k)

Blank(k) ==
    \E r \in Answered("quiz", k) \cup Answered("organisation", k) :
        /\ MayReply(k)
        /\ inflight' = inflight \ {r}
        /\ withheld' = withheld \cup {Withholds(r, k)}
        /\ store' = store \/ store' = context
        /\ UNCHANGED <<saver, started, running, done, block, background, cleanup, context, files>>

\* A download begins, with nothing or with the clean-up still to come.
Begin ==
    \E p \in Projects, ctx \in SUBSET context, rows \in SUBSET context :
        /\ MainIdle /\ Grounded(ctx)
        /\ StartSaver(p, ctx, rows)
        /\ \/ cleanup' = TRUE /\ files' = files
           \/ cleanup' = FALSE /\ files' = {} /\ context' = {}
        /\ ~cleanup
        /\ UNCHANGED <<done, block, background, withheld>>

LEMMA StartProjectEffect ==
    ASSUME SaverInv, NEW p \in Projects, StartProject(p)
    PROVE  Begin \/ Bystander
<1> USE DEF StartProject
<1>1. CASE p # projectID
    <2> DEFINE ctx == AfterDelete(context, store)
    <2>1. Grounded(ctx) /\ ctx \in SUBSET context
        BY AfterDeleteGrounded DEF SaverInv, Traceable
    <2>2. AfterDelete(ctx, ctx) = {}
        BY <2>1 DEF AfterDelete, Grounded
    <2>3. StartSaver(p, ctx, ctx) /\ files' = {}
        BY <1>1 DEF DownloadProject
    <2> HIDE DEF ctx
    <2>4. context' = {}
        BY <2>2, <2>3 DEF StartSaver, SaveContext
    <2>5. ~cleanup /\ cleanup' = FALSE
        BY DEF SaverInv, TypeOK
    <2> QED
        BY <2>1, <2>3, <2>4, <2>5 DEF Begin
<1>2. CASE p = projectID
    BY <1>2 DEF Bystander, saverVars, dataVars
<1> QED
    BY <1>1, <1>2

LEMMA RetryEffect ==
    ASSUME SaverInv, Retry
    PROVE  Begin
<1>1. projectID \in Projects /\ Grounded(context) /\ store \subseteq context
    BY DEF Retry, SaverInv, TypeOK, Chosen, Traceable
<1> QED
    BY <1>1 DEF Retry, Begin

LEMMA ReplyEffect ==
    ASSUME SaverInv, NEW k \in Savers,
           ProjectReply(k) \/ CoinsReply(k) \/ LocationsReply(k) \/ QuizReply(k) \/ OrganisationReply(k)
    PROVE  \/ Failing(k)
           \/ ProjectArrives(k) \/ QuizArrives(k) \/ OrganisationArrives(k) \/ Blank(k)
           \/ \E kind \in {"coins", "locations"} : ListArrives(kind, k)
<1>0. \A kind : \A r \in Answered(kind, k) :
          r \in inflight /\ r.obj.from = k /\ r.kind = kind /\ k \in 1..started
    BY AnsweredFrom
<1>1. CASE ProjectReply(k)
    <2>1. PICK r \in Answered("project", k) :
            /\ MayReply(k)
            /\ \/ /\ context' = context \cup Insert({ProjectObject(k)})
                  /\ inflight' = (inflight \ {r}) \cup
                         {Ask("coins", ProjectObject(k)), Ask("organisation", ProjectObject(k))} \cup
                         {q \in {Ask("locations", ProjectObject(k))} : ~saver[k].errorThrown}
                  /\ UNCHANGED saver
               \/ inflight' = inflight \ {r} /\ PostDirectly(k) /\ UNCHANGED context
            /\ UNCHANGED <<started, running, done, block, background, cleanup, withheld, store, files>>
        BY <1>1 DEF ProjectReply
    <2>2. CASE inflight' = inflight \ {r} /\ PostDirectly(k) /\ UNCHANGED context
        <3>1. ~(cleanup /\ k = started)
            BY <2>1 DEF MayReply
        <3> QED
            BY <1>0, <2>1, <2>2, <3>1, PostEffect
    <2> QED
        BY <2>1, <2>2 DEF ProjectArrives
<1>2. ASSUME NEW kind \in {"coins", "locations"}, ListReply(kind, k)
      PROVE  Failing(k) \/ ListArrives(kind, k)
    <2>1. PICK r \in Answered(kind, k) :
            /\ MayReply(k)
            /\ inflight' = inflight \ {r}
            /\ \/ \E objects \in SUBSET ListObjects(kind, k) :
                     /\ context' = context \cup Insert(objects)
                     /\ block' = [kind |-> kind, from |-> k, rest |-> objects]
                     /\ withheld' = withheld \cup WithQuizzes(ListObjects(kind, k) \ objects)
                     /\ UNCHANGED saver
               \/ PostError(k) /\ UNCHANGED <<context, block, withheld>>
            /\ UNCHANGED <<started, running, done, background, cleanup, store, files>>
        BY <1>2 DEF ListReply
    <2>2. CASE PostError(k) /\ UNCHANGED <<context, block, withheld>>
        BY <1>0, <2>1, <2>2, PostEffect
    <2> QED
        BY <2>1, <2>2 DEF ListArrives
<1>3. CASE QuizReply(k)
    <2>1. PICK r \in Answered("quiz", k) :
            /\ MayReply(k)
            /\ inflight' = inflight \ {r}
            /\ \/ LET quiz == QuizObject(r.obj)
                      ctx == context \cup Insert({quiz}) IN
                  /\ SaveContext(IF Exists(r.obj) \in ctx THEN ctx \cup Set(quiz, "linked", ctx)
                                                          ELSE ctx)
                  /\ UNCHANGED <<saver, withheld>>
               \/ /\ SaveContext(context)
                  /\ withheld' = withheld \cup {QuizObject(r.obj)}
                  /\ UNCHANGED saver
               \/ PostError(k) /\ UNCHANGED <<context, store, withheld>>
            /\ UNCHANGED <<started, running, done, block, background, cleanup, files>>
        BY <1>3 DEF QuizReply
    <2>2. CASE PostError(k) /\ UNCHANGED <<context, store, withheld>>
        BY <1>0, <2>1, <2>2, PostEffect
    <2>3. CASE SaveContext(context) /\ withheld' = withheld \cup {QuizObject(r.obj)} /\ UNCHANGED saver
        BY <1>0, <2>1, <2>3 DEF Blank, Withholds, SaveContext
    <2> QED
        BY <2>1, <2>2, <2>3 DEF QuizArrives
<1>4. CASE OrganisationReply(k)
    <2>1. PICK r \in Answered("organisation", k) :
            /\ MayReply(k)
            /\ \/ LET o == OrganisationObject(k)
                      ctx == context \cup Insert({o}) IN
                  /\ SaveContext(IF Exists(ProjectObject(k)) \in ctx
                                 THEN ctx \cup Set(o, "linked", ctx) ELSE ctx)
                  /\ inflight' = (inflight \ {r}) \cup ImageRequests(o)
                  /\ UNCHANGED <<saver, withheld>>
               \/ /\ inflight' = inflight \ {r}
                  /\ withheld' = withheld \cup {OrganisationObject(k)}
                  /\ UNCHANGED <<saver, context, store>>
               \/ inflight' = inflight \ {r} /\ PostDirectly(k) /\ UNCHANGED <<context, store, withheld>>
            /\ UNCHANGED <<started, running, done, block, background, cleanup, files>>
        BY <1>4 DEF OrganisationReply
    <2>2. CASE inflight' = inflight \ {r} /\ PostDirectly(k) /\ UNCHANGED <<context, store, withheld>>
        BY <1>0, <2>1, <2>2, PostEffect
    <2>3. CASE /\ inflight' = inflight \ {r} /\ withheld' = withheld \cup {OrganisationObject(k)}
               /\ UNCHANGED <<saver, context, store>>
        BY <1>0, <2>1, <2>3 DEF Blank, Withholds
    <2> QED
        BY <2>1, <2>2, <2>3 DEF OrganisationArrives
<1> QED
    BY <1>1, <1>2, <1>3, <1>4 DEF CoinsReply, LocationsReply

LEMMA BackgroundEffect ==
    ASSUME SaverInv, ImageFails \/ BackgroundPost
    PROVE  \E k \in 1..started : Failing(k)
<1>1. CASE ImageFails
    <2>1. PICK r \in inflight :
            /\ r.kind = "image"
            /\ inflight' = inflight \ {r}
            /\ files' \in {files} \cup
                   {files \ {FileName(r.obj, r.image)} : d \in {x \in {TRUE} : DiskMayFail}}
            /\ saver' = Fail(r.obj.from, saver[r.obj.from].errorThrown)
            /\ background' = IF saver[r.obj.from].errorThrown THEN Idle
                             ELSE [kind |-> "checked", from |-> r.obj.from]
            /\ UNCHANGED <<started, running, done, block, cleanup, withheld, context, store>>
        BY <1>1 DEF ImageFails
    <2> DEFINE k == r.obj.from
    <2>2. k \in 1..started
        BY DEF SaverInv, Requested
    <2>3. background' = Idle \/ background'.from = k
        BY <2>1
    <2>4. files' = files \/ DiskMayFail
        BY <2>1
    <2>5. /\ saver'[k].failed = TRUE
          /\ \A j \in 1..started :
                 /\ saver'[j].project = saver[j].project
                 /\ j # k => saver'[j] = saver[j]
                 /\ ~saver'[j].errorThrown => ~saver[j].errorThrown
        BY <2>1, <2>2, FailEffect DEF SaverInv
    <2>6. r \in Outstanding(k)
        BY DEF Outstanding
    <2>7. Failing(k)
        BY <2>1, <2>2, <2>3, <2>4, <2>5, <2>6 DEF Failing
    <2> QED
        BY <2>2, <2>7
<1>2. CASE BackgroundPost
    <2> DEFINE k == background.from
    <2>1. background \in [kind : {"checked", "posted"}, from : 1..started]
        BY <1>2 DEF SaverInv, TypeOK, BackgroundPost, Idle
    <2>2. k \in 1..started /\ background'.from = k /\ saver' = Fail(k, TRUE)
        BY <1>2, <2>1 DEF BackgroundPost
    <2>3. /\ saver'[k].failed = TRUE
          /\ \A j \in 1..started :
                 /\ saver'[j].project = saver[j].project
                 /\ j # k => saver'[j] = saver[j]
                 /\ ~saver'[j].errorThrown => ~saver[j].errorThrown
        BY <2>2, FailEffect DEF SaverInv
    <2>4. background \in Outstanding(k)
        BY <1>2 DEF Outstanding, BackgroundPost, Idle
    <2>5. Failing(k)
        BY <1>2, <2>2, <2>3, <2>4 DEF Failing, BackgroundPost, netVars, dataVars
    <2> QED
        BY <2>2, <2>5
<1> QED
    BY <1>1, <1>2

LEMMA BystanderEffect ==
    ASSUME SaverInv,
           \/ Deliver \/ OrganisationsReply \/ ProjectsReply \/ ListFails
           \/ OpenProjectList \/ Leave \/ Return
           \/ EnterBackground \/ UNCHANGED vars
    PROVE  Bystander
<1>1. CASE Deliver
    BY <1>1 DEF Deliver, Bystander, saverVars, netVars, dataVars
<1>2. CASE OrganisationsReply \/ ProjectsReply
    BY <1>2 DEF OrganisationsReply, ProjectsReply, Bystander, netVars, Insert, Object, Exists, Fact
<1>4. CASE ListFails
    BY <1>4 DEF ListFails, Bystander, saverVars, netVars, dataVars
<1>3. CASE OpenProjectList \/ Leave \/ Return \/ EnterBackground \/ UNCHANGED vars
    BY <1>3 DEF OpenProjectList, Leave, Return, EnterBackground, SaveContext, vars, Bystander,
                saverVars, netVars, dataVars
<1> QED
    BY <1>1, <1>2, <1>3, <1>4

\* Every step of the specification is of one of these kinds.
LEMMA StepKinds ==
    ASSUME SaverInv, [Next]_vars
    PROVE  \/ Bystander \/ Begin \/ Ends \/ CleanUp
           \/ LoopReturn \/ LoopTurn \/ LoopEnd
           \/ ImageArrives \/ ImageDone
           \/ \E k \in 1..started :
                  \/ Failing(k) \/ ProjectArrives(k) \/ QuizArrives(k) \/ OrganisationArrives(k)
                  \/ Blank(k)
                  \/ \E kind \in {"coins", "locations"} : ListArrives(kind, k)
<1>1. ASSUME NEW k \in Savers,
             ProjectReply(k) \/ CoinsReply(k) \/ LocationsReply(k) \/ QuizReply(k) \/ OrganisationReply(k)
      PROVE  k \in 1..started
    BY <1>1, AnsweredFrom DEF ProjectReply, CoinsReply, LocationsReply, ListReply, QuizReply,
                              OrganisationReply
<1>2. CASE MainQueue
    BY <1>1, <1>2, ReplyEffect, BystanderEffect DEF MainQueue
<1>3. CASE Background
    BY <1>3, BackgroundEffect DEF Background
<1>4. CASE Player
    BY <1>4, StartProjectEffect, RetryEffect, BystanderEffect DEF Player, Relaunch
<1>5. CASE UNCHANGED vars
    BY <1>5, BystanderEffect
<1> QED
    BY <1>2, <1>3, <1>4, <1>5 DEF Next

-----------------------------------------------------------------------------
(* The order in which a Saver works *)

Awaits(kind, k) == \E r \in inflight : r.kind = kind /\ r.obj.from = k
Looping(k) == block # NoBlock /\ block.from = k

\* The kind of object that the reply to a request brings.
Yields(kind) ==
    CASE kind = "coins" -> "coin" [] kind = "locations" -> "location" [] OTHER -> "organisation"

\* A Saver asks once for the project, its organisation, its coins and its locations,
\* and only the objects these replies bring have images.
Single ==
    /\ \A r, s \in inflight :
           /\ r.kind \in {"project", "coins", "locations", "organisation"}
           /\ s.kind = r.kind /\ s.obj.from = r.obj.from
           => r = s
    /\ \A r \in inflight \cup done :
           r.kind = "image" => r.obj.kind \in {"coin", "location", "organisation"}
    /\ \A r \in done : r.kind = "image"

\* Until the project has come there is nothing of the Saver, and until the coins
\* have come there is no image of a coin; the same for the other two.
BeforeProject(k) ==
    Awaits("project", k) =>
        /\ \A r \in inflight \cup done : r.obj.from = k => r.kind = "project"
        /\ \A f \in context : f.obj.from # k
        /\ ~Looping(k)

BeforeList(kind, k) ==
    Awaits(kind, k) =>
        /\ \A r \in inflight \cup done : r.kind = "image" /\ r.obj.from = k => r.obj.kind # Yields(kind)
        /\ ~(Looping(k) /\ block.kind = kind)

Staged ==
    /\ \A k \in 1..started : BeforeProject(k)
    /\ \A k \in 1..started : \A kind \in {"coins", "locations", "organisation"} : BeforeList(kind, k)
    /\ block # NoBlock => \A o \in block.rest : o.kind = Yields(block.kind)
    /\ \A f \in context : f.obj.from \in 0..started
    /\ cleanup => Awaits("project", started)

\* An error is thrown or handled only for a Saver that is marked.
Blamed ==
    /\ \A k \in 1..started : saver[k].errorThrown => saver[k].failed
    /\ background # Idle => saver[background.from].failed

OrderInv == Single /\ Staged /\ Blamed

\* A step that asks for nothing new, adds facts only of Savers past their first
\* reply, and starts no loop.
LEMMA OrderKept ==
    ASSUME SaverInv, Single, Staged, started' = started,
           inflight' \subseteq inflight,
           \A r \in done' : r \in done \/ (r \in inflight /\ r.kind = "image"),
           \A f \in context' : \/ f \in context
                               \/ f.obj.from = 0
                               \/ f.obj.from \in 1..started /\ ~Awaits("project", f.obj.from),
           block' = block \/ block' = NoBlock,
           cleanup' => cleanup /\ Awaits("project", started)'
    PROVE  Single' /\ Staged'
<1>1. Single'
    BY DEF Single
<1>2. \A kind, k : Awaits(kind, k)' => Awaits(kind, k)
    BY DEF Awaits
<1>3. \A k : Looping(k)' => Looping(k) /\ block' = block
    BY DEF Looping
<1>4. started \in Nat
    BY DEF SaverInv, TypeOK
<1>5. ASSUME NEW k \in 1..started PROVE BeforeProject(k)'
    <2>1. BeforeProject(k)
        BY DEF Staged
    <2> QED
        BY <1>2, <1>3, <1>4, <2>1 DEF BeforeProject
<1>6. ASSUME NEW k \in 1..started, NEW kind \in {"coins", "locations", "organisation"}
      PROVE  BeforeList(kind, k)'
    <2>1. BeforeList(kind, k)
        BY DEF Staged
    <2> QED
        BY <1>2, <1>3, <2>1 DEF BeforeList
<1>7. block' # NoBlock => \A o \in block'.rest : o.kind = Yields(block'.kind)
    BY DEF Staged
<1>8. \A f \in context' : f.obj.from \in 0..started'
    BY <1>4 DEF Staged
<1> QED
    BY <1>1, <1>5, <1>6, <1>7, <1>8 DEF Staged

LEMMA BeginOrder ==
    ASSUME SaverInv, OrderInv, Begin
    PROVE  OrderInv'
<1>1. PICK p \in Projects, ctx \in SUBSET context, rows \in SUBSET context :
        /\ MainIdle /\ StartSaver(p, ctx, rows)
        /\ UNCHANGED <<done, block, background>>
    BY DEF Begin
<1>0. PICK k : k = started + 1
    OBVIOUS
<1> DEFINE q == Ask("project", Object("project", p, k))
<1>2. /\ started' = k /\ inflight' = inflight \cup {q} /\ context' \subseteq context
      /\ done' = done /\ block' = NoBlock /\ background' = background
    BY <1>0, <1>1 DEF StartSaver, SaveContext, AfterDelete, MainIdle
<1>3. q.kind = "project" /\ q.obj.from = k
    BY DEF Ask, Request, Object
<1>4. started \in Nat /\ 1..k = 1..started \cup {k} /\ k \notin 1..started /\ k \notin 0..started
      /\ 0..started \subseteq 0..k
    BY <1>0, SaverAssumption DEF SaverInv, TypeOK
<1>5. \A j \in 1..started : saver'[j] = saver[j]
    BY <1>0, <1>1, <1>4 DEF StartSaver, SaverInv, TypeOK, Savers
<1>6. saver'[k].errorThrown = FALSE
    <2>1. k \in Savers
        BY <1>0, <1>1, <1>4, SaverAssumption DEF StartSaver, Savers
    <2> QED
        BY <1>0, <1>1, <2>1 DEF StartSaver, SaverInv, TypeOK
<1>7. \A r \in inflight \cup done : r.obj.from \in 1..started
    BY DEF SaverInv, Requested
<1> HIDE DEF q
<1>8. Single'
    BY <1>2, <1>3, <1>4, <1>7 DEF OrderInv, Single
<1>9. \A kind : \A j \in 1..started : Awaits(kind, j)' => Awaits(kind, j)
    BY <1>2, <1>3, <1>4 DEF Awaits
<1>10. Awaits("project", k)'
    BY <1>2, <1>3 DEF Awaits
<1>11. \A kind \in {"coins", "locations", "organisation"} : ~Awaits(kind, k)'
    BY <1>2, <1>3, <1>4, <1>7 DEF Awaits
<1>12. \A j : ~Looping(j)'
    BY <1>2 DEF Looping
<1>13. ASSUME NEW j \in 1..k PROVE BeforeProject(j)'
    <2>1. CASE j \in 1..started
        <3>1. BeforeProject(j)
            BY <2>1 DEF OrderInv, Staged
        <3> QED
            BY <1>2, <1>3, <1>4, <1>9, <1>12, <2>1, <3>1 DEF BeforeProject
    <2>2. CASE j = k
        BY <1>2, <1>3, <1>4, <1>7, <1>12, <2>2 DEF BeforeProject, OrderInv, Staged
    <2> QED
        BY <1>4, <2>1, <2>2
<1>14. ASSUME NEW j \in 1..k, NEW kind \in {"coins", "locations", "organisation"}
       PROVE  BeforeList(kind, j)'
    <2>1. CASE j \in 1..started
        <3>1. BeforeList(kind, j)
            BY <2>1 DEF OrderInv, Staged
        <3> QED
            BY <1>2, <1>3, <1>9, <1>12, <2>1, <3>1 DEF BeforeList
    <2>2. CASE j = k
        BY <1>11, <2>2 DEF BeforeList
    <2> QED
        BY <1>4, <2>1, <2>2
<1>15. \A f \in context' : f.obj.from \in 0..k
    BY <1>2, <1>4 DEF OrderInv, Staged
<1>16. Staged'
    BY <1>2, <1>10, <1>13, <1>14, <1>15 DEF Staged, Awaits
<1>17. Blamed'
    <2>1. background # Idle => background.from \in 1..started
        BY DEF SaverInv, TypeOK
    <2> QED
        BY <1>2, <1>4, <1>5, <1>6, <2>1 DEF OrderInv, Blamed
<1> QED
    BY <1>8, <1>16, <1>17 DEF OrderInv

LEMMA ProjectArrivesOrder ==
    ASSUME SaverInv, OrderInv, NEW k \in 1..started, ProjectArrives(k)
    PROVE  OrderInv'
<1> DEFINE o == ProjectObject(k)
           new == {Ask("coins", o), Ask("organisation", o)} \cup
                      {q \in {Ask("locations", o)} : ~saver[k].errorThrown}
<1>1. PICK r \in Answered("project", k) :
        /\ MayReply(k)
        /\ context' = context \cup Insert({o})
        /\ inflight' = (inflight \ {r}) \cup new
        /\ UNCHANGED <<saver, started, running, done, block, background, cleanup, store, files>>
    BY DEF ProjectArrives
<1>2. r \in inflight /\ r.kind = "project" /\ r.obj.from = k
    BY DEF Answered
<1>3. o \in Objects /\ o.from = k
    BY ObjectsOf DEF SaverInv
<1>4. /\ \A q \in new : q.obj.from = k /\ q.kind \in {"coins", "locations", "organisation"}
      /\ \A q, s \in new : q.kind = s.kind => q = s
    BY <1>3 DEF Ask, Request
<1>5. \A f \in Insert({o}) : f.obj.from = k
    BY <1>3, InsertType
<1>6. \A s \in inflight \cup done : s.obj.from = k => s.kind = "project"
    BY <1>2 DEF OrderInv, Staged, BeforeProject, Awaits
<1>7. \A s \in inflight : s.obj.from = k => s = r
    BY <1>2, <1>6 DEF OrderInv, Single
<1> HIDE DEF new, o
<1>8. block' = NoBlock /\ ~(cleanup /\ k = started)
    BY <1>1 DEF MayReply, MainIdle
<1>9. Single'
    BY <1>1, <1>4, <1>6, <1>7 DEF OrderInv, Single
<1>10. /\ \A kind : \A j \in 1..started : j # k => (Awaits(kind, j)' <=> Awaits(kind, j))
       /\ ~Awaits("project", k)'
    BY <1>1, <1>2, <1>4, <1>7 DEF Awaits
<1>11. \A j : ~Looping(j)'
    BY <1>8 DEF Looping
<1>12. ASSUME NEW j \in 1..started PROVE BeforeProject(j)'
    <2>1. CASE j # k
        <3>1. BeforeProject(j)
            BY DEF OrderInv, Staged
        <3> QED
            BY <1>1, <1>4, <1>5, <1>10, <1>11, <2>1, <3>1 DEF BeforeProject
    <2>2. CASE j = k
        BY <1>10, <2>2 DEF BeforeProject
    <2> QED
        BY <2>1, <2>2
<1>13. ASSUME NEW j \in 1..started, NEW kind \in {"coins", "locations", "organisation"}
       PROVE  BeforeList(kind, j)'
    <2>1. CASE j # k
        <3>1. BeforeList(kind, j)
            BY DEF OrderInv, Staged
        <3> QED
            BY <1>1, <1>4, <1>10, <1>11, <2>1, <3>1 DEF BeforeList
    <2>2. CASE j = k
        BY <1>1, <1>4, <1>6, <1>11, <2>2 DEF BeforeList
    <2> QED
        BY <2>1, <2>2
<1>14. \A f \in context' : f.obj.from \in 0..started
    <2>1. k \in 0..started
        BY DEF SaverInv, TypeOK
    <2> QED
        BY <1>1, <1>5, <2>1 DEF OrderInv, Staged
<1>15. cleanup => Awaits("project", started)'
    <2>1. started \in 1..started
        BY DEF SaverInv, TypeOK
    <2> QED
        BY <1>1, <1>8, <1>10, <2>1 DEF OrderInv, Staged, Awaits
<1>16. Staged'
    BY <1>1, <1>8, <1>12, <1>13, <1>14, <1>15 DEF Staged
<1>17. Blamed'
    BY <1>1 DEF OrderInv, Blamed
<1> QED
    BY <1>9, <1>16, <1>17 DEF OrderInv

LEMMA ListYields ==
    ASSUME NEW k, NEW kind \in {"coins", "locations"}
    PROVE  \A o \in ListObjects(kind, k) : o.kind = Yields(kind)
BY DEF ListObjects, CoinObjects, LocationObjects, Object, Yields

LEMMA ListArrivesOrder ==
    ASSUME SaverInv, OrderInv, NEW k \in 1..started, NEW kind \in {"coins", "locations"},
           ListArrives(kind, k)
    PROVE  OrderInv'
<1>1. PICK r \in Answered(kind, k), objects \in SUBSET ListObjects(kind, k) :
        /\ MayReply(k)
        /\ inflight' = inflight \ {r}
        /\ context' = context \cup Insert(objects)
        /\ block' = [kind |-> kind, from |-> k, rest |-> objects]
        /\ UNCHANGED <<saver, started, running, done, background, cleanup, store, files>>
    BY DEF ListArrives
<1>2. r \in inflight /\ r.kind = kind /\ r.obj.from = k
    BY DEF Answered
<1>3. objects \subseteq Objects /\ \A o \in objects : o.from = k /\ o.kind = Yields(kind)
    BY ListType, ListYields DEF SaverInv
<1>4. \A f \in Insert(objects) : f.obj.from = k
    BY <1>3, InsertType
<1>5. ~Awaits("project", k)
    BY <1>2 DEF OrderInv, Staged, BeforeProject, Awaits
<1>6. /\ \A x, j : Awaits(x, j)' => Awaits(x, j)
      /\ ~Awaits(kind, k)'
    BY <1>1, <1>2 DEF Awaits, OrderInv, Single
<1>7. Single'
    BY <1>1 DEF OrderInv, Single
<1>8. \A j : Looping(j)' => j = k /\ block'.kind = kind
    BY <1>1 DEF Looping
<1>9. ASSUME NEW j \in 1..started PROVE BeforeProject(j)'
    <2>1. BeforeProject(j)
        BY DEF OrderInv, Staged
    <2> QED
        BY <1>1, <1>4, <1>5, <1>6, <1>8, <2>1 DEF BeforeProject
<1>10. ASSUME NEW j \in 1..started, NEW x \in {"coins", "locations", "organisation"}
       PROVE  BeforeList(x, j)'
    <2>1. BeforeList(x, j)
        BY DEF OrderInv, Staged
    <2> QED
        BY <1>1, <1>6, <1>8, <2>1 DEF BeforeList
<1>11. \A f \in context' : f.obj.from \in 0..started
    <2>1. k \in 0..started
        BY DEF SaverInv, TypeOK
    <2> QED
        BY <1>1, <1>4, <2>1 DEF OrderInv, Staged
<1>12. cleanup => Awaits("project", started)'
    BY <1>1, <1>2 DEF OrderInv, Staged, Awaits
<1>13. \A o \in block'.rest : o.kind = Yields(block'.kind)
    BY <1>1, <1>3
<1>14. Staged'
    BY <1>1, <1>9, <1>10, <1>11, <1>12, <1>13 DEF Staged
<1>15. Blamed'
    BY <1>1 DEF OrderInv, Blamed
<1> QED
    BY <1>7, <1>14, <1>15 DEF OrderInv

LEMMA OrganisationArrivesOrder ==
    ASSUME SaverInv, OrderInv, NEW k \in 1..started, OrganisationArrives(k)
    PROVE  OrderInv'
<1> DEFINE o == OrganisationObject(k)
           ctx == context \cup Insert({o})
<1>1. PICK r \in Answered("organisation", k) :
        /\ MayReply(k)
        /\ inflight' = (inflight \ {r}) \cup ImageRequests(o)
        /\ SaveContext(IF Exists(ProjectObject(k)) \in ctx THEN ctx \cup Set(o, "linked", ctx) ELSE ctx)
        /\ UNCHANGED <<saver, started, running, done, block, background, cleanup, files>>
    BY DEF OrganisationArrives
<1>2. r \in inflight /\ r.kind = "organisation" /\ r.obj.from = k
    BY DEF Answered
<1>3. o \in Objects /\ o.from = k /\ o.kind = "organisation"
    BY ObjectsOf DEF SaverInv, OrganisationObject, Object
<1>4. \A q \in ImageRequests(o) : q.obj = o /\ q.kind = "image"
    BY <1>3, RequestType
<1>5. \A f \in context' : f \in context \/ f.obj = o
    <2>1. \A f \in Insert({o}) : f.obj = o
        BY <1>3, InsertType
    <2>2. \A f \in Set(o, "linked", ctx) : f.obj = o
        BY <1>3, SetType
    <2> QED
        BY <1>1, <2>1, <2>2 DEF SaveContext
<1> HIDE DEF o, ctx
<1>6. ~Awaits("project", k)
    BY <1>2 DEF OrderInv, Staged, BeforeProject, Awaits
<1>7. /\ \A x : x # "image" => \A j : Awaits(x, j)' => Awaits(x, j)
      /\ ~Awaits("organisation", k)'
    BY <1>1, <1>2, <1>4 DEF Awaits, OrderInv, Single
<1>8. Single'
    BY <1>1, <1>3, <1>4 DEF OrderInv, Single
<1>9. \A j : ~Looping(j)'
    BY <1>1 DEF Looping, MayReply, MainIdle
<1>10. ASSUME NEW j \in 1..started PROVE BeforeProject(j)'
    <2>1. BeforeProject(j)
        BY DEF OrderInv, Staged
    <2> QED
        BY <1>1, <1>3, <1>4, <1>5, <1>6, <1>7, <1>9, <2>1 DEF BeforeProject
<1>11. ASSUME NEW j \in 1..started, NEW x \in {"coins", "locations", "organisation"}
       PROVE  BeforeList(x, j)'
    <2>1. BeforeList(x, j)
        BY DEF OrderInv, Staged
    <2> QED
        BY <1>1, <1>3, <1>4, <1>7, <1>9, <2>1 DEF BeforeList, Yields
<1>12. \A f \in context' : f.obj.from \in 0..started
    <2>1. k \in 0..started
        BY DEF SaverInv, TypeOK
    <2> QED
        BY <1>3, <1>5, <2>1 DEF OrderInv, Staged
<1>13. cleanup => Awaits("project", started)'
    BY <1>1, <1>2 DEF OrderInv, Staged, Awaits
<1>14. Staged'
    BY <1>1, <1>9, <1>10, <1>11, <1>12, <1>13 DEF Staged, MayReply, MainIdle
<1>15. Blamed'
    BY <1>1 DEF OrderInv, Blamed
<1> QED
    BY <1>8, <1>14, <1>15 DEF OrderInv

\* A turn of a loop that does not end the application.
Turn(o, asked) ==
    /\ context' = IF Exists(ProjectObject(block.from)) \in context
                  THEN context \cup Set(o, "linked", context) ELSE context
    /\ inflight' = inflight \cup ImageRequests(o) \cup
                       {q \in {Ask("quiz", o)} : o.kind = "location" /\ asked}
    /\ block' = [block EXCEPT !.rest = @ \ {o}]
    /\ UNCHANGED <<saver, started, running, done, background, cleanup, withheld, store, files>>

LEMMA TurnEffect ==
    ASSUME SaverInv, LoopTurn
    PROVE  Ends \/ \E o \in block.rest, asked \in QuizAsked(block.from) : Turn(o, asked)
BY DEF LoopTurn, Turn, saverVars, uiVars

\* What a turn adds is about its object, which belongs to the Saver of the loop.
LEMMA TurnType ==
    ASSUME SaverInv, OrderInv, block # NoBlock, NEW o \in block.rest, NEW asked, Turn(o, asked)
    PROVE  /\ block.from \in 1..started /\ o \in Objects /\ o.from = block.from
           /\ o.kind = Yields(block.kind)
           /\ block'.from = block.from /\ block'.kind = block.kind
           /\ block'.rest = block.rest \ {o} /\ block' # NoBlock
           /\ context \subseteq context'
           /\ \A f \in context' : f \in context \/ (f = Fact(o, "linked") /\ f.obj = o)
           /\ inflight \subseteq inflight'
           /\ \A r \in inflight' : r \in inflight \/ (r.obj = o /\ r.kind \in {"image", "quiz"})
<1>1. /\ block \in [kind : {"coins", "locations"}, from : 1..started, rest : SUBSET Objects]
      /\ o.from = block.from
    BY DEF SaverInv, TypeOK, Requested
<1>2. /\ block'.from = block.from /\ block'.kind = block.kind
      /\ block'.rest = block.rest \ {o}
      /\ block' \in [kind : {"coins", "locations"}, from : 1..started, rest : SUBSET Objects]
    BY <1>1 DEF Turn
<1>3. block' # NoBlock
    <2>1. block'.kind # NoBlock.kind
        BY <1>2 DEF NoBlock
    <2> QED
        BY <2>1
<1>4. o \in Objects /\ o.kind = Yields(block.kind)
    BY <1>1 DEF OrderInv, Staged
<1>5. \A f \in Set(o, "linked", context) : f = Fact(o, "linked") /\ f.obj = o
    BY DEF Set, Fact
<1>6. \A r \in ImageRequests(o) \cup {Ask("quiz", o)} : r.obj = o /\ r.kind \in {"image", "quiz"}
    BY DEF ImageRequests, Ask, Request
<1> QED
    BY <1>1, <1>2, <1>3, <1>4, <1>5, <1>6 DEF Turn

LEMMA TurnOrder ==
    ASSUME SaverInv, OrderInv, block # NoBlock, NEW o \in block.rest, NEW asked, Turn(o, asked)
    PROVE  OrderInv'
<1>0. PICK k : k = block.from
    OBVIOUS
<1>1. /\ k \in 1..started /\ o \in Objects /\ o.from = k /\ o.kind = Yields(block.kind)
      /\ block'.from = k /\ block'.kind = block.kind /\ block'.rest = block.rest \ {o}
      /\ block.kind \in {"coins", "locations"}
      /\ \A f \in context' : f \in context \/ f.obj = o
      /\ inflight \subseteq inflight'
      /\ \A r \in inflight' : r \in inflight \/ (r.obj = o /\ r.kind \in {"image", "quiz"})
    BY <1>0, TurnType DEF SaverInv, TypeOK
<1>2. UNCHANGED <<saver, started, running, done, background, cleanup, store, files>>
    BY DEF Turn
<1>3. Looping(k) /\ ~Awaits("project", k) /\ ~Awaits(block.kind, k)
    <2>1. Looping(k)
        BY <1>0 DEF Looping
    <2> QED
        BY <1>1, <2>1 DEF OrderInv, Staged, BeforeProject, BeforeList
<1>4. \A x \in {"project", "coins", "locations", "organisation"} : \A j : Awaits(x, j)' <=> Awaits(x, j)
    BY <1>1 DEF Awaits
<1>5. Single'
    <2>1. o.kind \in {"coin", "location", "organisation"}
        BY <1>1 DEF Yields
    <2> QED
        BY <1>1, <1>2, <2>1 DEF OrderInv, Single
<1>6. \A j : Looping(j)' => Looping(j)
    BY <1>0, <1>1 DEF Looping
<1>7. ASSUME NEW j \in 1..started PROVE BeforeProject(j)'
    <2>1. BeforeProject(j)
        BY DEF OrderInv, Staged
    <2> QED
        BY <1>1, <1>2, <1>3, <1>4, <1>6, <2>1 DEF BeforeProject
<1>8. ASSUME NEW j \in 1..started, NEW x \in {"coins", "locations", "organisation"}
      PROVE  BeforeList(x, j)'
    <2>1. BeforeList(x, j)
        BY DEF OrderInv, Staged
    <2>2. Yields(x) = Yields(block.kind) => x = block.kind
        BY <1>1 DEF Yields
    <2> QED
        BY <1>1, <1>2, <1>3, <1>4, <1>6, <2>1, <2>2 DEF BeforeList
<1>9. \A f \in context' : f.obj.from \in 0..started
    <2>1. k \in 0..started
        BY <1>1 DEF SaverInv, TypeOK
    <2> QED
        BY <1>1, <2>1 DEF OrderInv, Staged
<1>10. cleanup => Awaits("project", started)'
    BY <1>2, <1>4 DEF OrderInv, Staged, Awaits
<1>11. \A x \in block'.rest : x.kind = Yields(block'.kind)
    BY <1>1 DEF OrderInv, Staged
<1>12. Staged'
    BY <1>2, <1>7, <1>8, <1>9, <1>10, <1>11 DEF Staged
<1>13. Blamed'
    BY <1>2 DEF OrderInv, Blamed
<1> QED
    BY <1>5, <1>12, <1>13 DEF OrderInv

LEMMA FailingOrder ==
    ASSUME SaverInv, OrderInv, NEW k \in 1..started, Failing(k)
    PROVE  OrderInv'
<1>1. cleanup' => cleanup /\ Awaits("project", started)'
    <2>1. SUFFICES ASSUME cleanup PROVE Awaits("project", started)'
        BY DEF Failing
    <2>2. PICK r \in inflight : r.kind = "project" /\ r.obj.from = started
        BY <2>1 DEF OrderInv, Staged, Awaits
    <2>3. r \in inflight'
        BY <2>1, <2>2 DEF Failing
    <2> QED
        BY <2>2, <2>3 DEF Awaits, Failing
<1>2. Single' /\ Staged'
    BY <1>1, OrderKept DEF Failing, OrderInv
<1>3. \A j \in 1..started : saver[j].failed => saver'[j].failed
    BY DEF Failing
<1>4. background # Idle => background.from \in 1..started
    BY DEF SaverInv, TypeOK
<1>5. Blamed'
    BY <1>3, <1>4 DEF Failing, OrderInv, Blamed
<1> QED
    BY <1>2, <1>5 DEF OrderInv

\* What ImageDone adds: one fact about the object of the image.
LEMMA ImageDoneEffect ==
    ASSUME SaverInv, OrderInv, ImageDone
    PROVE  \E r \in done :
              /\ r.obj \in Objects /\ r.image \in Images /\ r.obj.from \in 1..started
              /\ ~Awaits("project", r.obj.from)
              /\ MainIdle /\ done' = done \ {r}
              /\ context' = context \cup Set(r.obj, r.image, context)
              /\ store' = context' \/ (store' = store /\ r.obj.kind = "organisation")
              /\ UNCHANGED <<saver, started, running, inflight, block, background, cleanup, withheld, files>>
<1>1. PICK r \in done :
        /\ MainIdle /\ done' = done \ {r}
        /\ context' = context \cup Set(r.obj, r.image, context)
        /\ store' = context' \/ (store' = store /\ r.obj.kind = "organisation")
        /\ UNCHANGED <<saver, started, running, inflight, block, background, cleanup, withheld, files>>
    BY DEF ImageDone, SaveContext, saverVars
<1>2. r.obj \in Objects /\ r.image \in Images /\ r.obj.from \in 1..started
    BY DEF SaverInv, TypeOK, Requested, Requests
<1>3. ~Awaits("project", r.obj.from)
    BY <1>2 DEF OrderInv, Single, Staged, BeforeProject
<1> QED
    BY <1>1, <1>2, <1>3

\* What QuizReply adds: facts about the quiz of the location it was asked for.
LEMMA QuizArrivesEffect ==
    ASSUME SaverInv, OrderInv, NEW k \in 1..started, QuizArrives(k)
    PROVE  \E r \in inflight :
              LET quiz == QuizObject(r.obj) IN
              /\ r.kind = "quiz" /\ r.obj \in Objects /\ r.obj.from = k
              /\ ~Awaits("project", k)
              /\ MayReply(k) /\ inflight' = inflight \ {r}
              /\ context \subseteq context' /\ store' = context'
              /\ \A f \in context' : f \in context \/
                     (f.obj = quiz /\ f.what \in {"exists", "linked"})
              /\ Exists(quiz) \in context'
              /\ Exists(r.obj) \in context => Fact(quiz, "linked") \in context'
              /\ UNCHANGED <<saver, started, running, done, block, background, cleanup, withheld, files>>
<1>1. PICK r \in Answered("quiz", k) :
        LET quiz == QuizObject(r.obj)
            ctx == context \cup Insert({quiz}) IN
        /\ MayReply(k)
        /\ inflight' = inflight \ {r}
        /\ SaveContext(IF Exists(r.obj) \in ctx THEN ctx \cup Set(quiz, "linked", ctx) ELSE ctx)
        /\ UNCHANGED <<saver, started, running, done, block, background, cleanup, withheld, files>>
    BY DEF QuizArrives
<1> DEFINE quiz == QuizObject(r.obj)
           ctx == context \cup Insert({quiz})
<1>2. r \in inflight /\ r.kind = "quiz" /\ r.obj.from = k
    BY DEF Answered
<1>3. r.obj \in Objects
    BY <1>2 DEF SaverInv, TypeOK, Requests
<1>4. ~Awaits("project", k)
    BY <1>2 DEF OrderInv, Staged, BeforeProject
<1>5. Exists(quiz) \in ctx /\ \A f \in ctx : f \in context \/ (f.obj = quiz /\ f.what \in {"exists", "linked"})
    BY DEF Insert, Exists, Fact
<1>6. Set(quiz, "linked", ctx) = {Fact(quiz, "linked")}
    BY <1>5 DEF Set
<1>7. \A f \in {Fact(quiz, "linked")} : f.obj = quiz /\ f.what \in {"exists", "linked"}
    BY DEF Fact
<1>8. /\ context' = (IF Exists(r.obj) \in ctx THEN ctx \cup {Fact(quiz, "linked")} ELSE ctx)
      /\ store' = context'
    BY <1>1, <1>6 DEF SaveContext
<1>9. /\ context \subseteq context' /\ Exists(quiz) \in context'
      /\ \A f \in context' : f \in context \/ (f.obj = quiz /\ f.what \in {"exists", "linked"})
      /\ Exists(r.obj) \in context => Fact(quiz, "linked") \in context'
    BY <1>5, <1>7, <1>8
<1> QED
    BY <1>1, <1>2, <1>3, <1>4, <1>8, <1>9

LEMMA OrderStep ==
    SaverInv /\ OrderInv /\ [Next]_vars => OrderInv'
<1> SUFFICES ASSUME SaverInv, OrderInv, [Next]_vars PROVE OrderInv'
    OBVIOUS
<1>1. CASE Bystander
    <2>1. Single' /\ Staged'
        BY <1>1, OrderKept DEF Bystander, OrderInv, Staged, Awaits
    <2>2. Blamed'
        BY <1>1 DEF Bystander, OrderInv, Blamed
    <2> QED
        BY <2>1, <2>2 DEF OrderInv
<1>2. CASE Ends
    <2>1. Single' /\ Staged'
        BY <1>2, OrderKept DEF Ends, OrderInv, SaverInv, Traceable
    <2>2. Blamed'
        BY <1>2 DEF Ends, OrderInv, Blamed
    <2> QED
        BY <2>1, <2>2 DEF OrderInv
<1>3. CASE CleanUp
    <2>1. Single' /\ Staged'
        BY <1>3, OrderKept DEF CleanUp, OrderInv, SaveContext, AfterDelete, saverVars, netVars
    <2>2. Blamed'
        BY <1>3 DEF CleanUp, OrderInv, Blamed, saverVars
    <2> QED
        BY <2>1, <2>2 DEF OrderInv
<1>4. CASE LoopReturn \/ LoopEnd
    <2>1. /\ UNCHANGED <<saver, started, inflight, done, background, cleanup>>
          /\ block' = NoBlock /\ context' = context
        BY <1>4 DEF LoopReturn, LoopEnd, SaveContext, saverVars, netVars, dataVars
    <2>2. Single' /\ Staged'
        BY <2>1, OrderKept DEF OrderInv, Staged, Awaits
    <2>3. Blamed'
        BY <2>1 DEF OrderInv, Blamed
    <2> QED
        BY <2>2, <2>3 DEF OrderInv
<1>5. CASE LoopTurn
    <2>1. block # NoBlock
        BY <1>5 DEF LoopTurn
    <2> QED
        BY <1>2, <1>5, <2>1, TurnEffect, TurnOrder
<1>6. CASE ImageArrives
    <2>1. PICK r \in inflight :
            /\ r.kind = "image" /\ inflight' = inflight \ {r} /\ done' = done \cup {r}
            /\ UNCHANGED <<saver, started, block, background, cleanup, context>>
        BY <1>6 DEF ImageArrives, saverVars
    <2>2. cleanup => Awaits("project", started)'
        BY <2>1 DEF OrderInv, Staged, Awaits
    <2>3. Single' /\ Staged'
        BY <2>1, <2>2, OrderKept DEF OrderInv
    <2>4. Blamed'
        BY <2>1 DEF OrderInv, Blamed
    <2> QED
        BY <2>3, <2>4 DEF OrderInv
<1>7. CASE ImageDone
    <2>1. PICK r \in done :
            /\ r.obj.from \in 1..started /\ ~Awaits("project", r.obj.from)
            /\ done' = done \ {r}
            /\ context' = context \cup Set(r.obj, r.image, context)
            /\ UNCHANGED <<saver, started, inflight, block, background, cleanup>>
        BY <1>7, ImageDoneEffect
    <2>2. \A f \in context' : f \in context \/ f.obj = r.obj
        BY <2>1 DEF Set, Fact
    <2>3. Single' /\ Staged'
        BY <2>1, <2>2, OrderKept DEF OrderInv, Staged, Awaits
    <2>4. Blamed'
        BY <2>1 DEF OrderInv, Blamed
    <2> QED
        BY <2>3, <2>4 DEF OrderInv
<1>8. ASSUME NEW k \in 1..started, QuizArrives(k) PROVE OrderInv'
    <2>1. PICK r \in inflight :
            /\ r.kind = "quiz" /\ r.obj \in Objects /\ r.obj.from = k
            /\ ~Awaits("project", k)
            /\ inflight' = inflight \ {r}
            /\ \A f \in context' : f \in context \/ f.obj = QuizObject(r.obj)
            /\ UNCHANGED <<saver, started, done, block, background, cleanup>>
        BY <1>8, QuizArrivesEffect
    <2>2. QuizObject(r.obj).from = k
        BY <2>1, QuizObjectType
    <2>3. cleanup => Awaits("project", started)'
        BY <2>1 DEF OrderInv, Staged, Awaits
    <2>4. Single' /\ Staged'
        BY <2>1, <2>2, <2>3, OrderKept DEF OrderInv
    <2>5. Blamed'
        BY <2>1 DEF OrderInv, Blamed
    <2> QED
        BY <2>4, <2>5 DEF OrderInv
<1>9. ASSUME NEW k \in 1..started, Blank(k) PROVE OrderInv'
    <2>1. PICK r \in inflight :
            /\ r.kind \in {"quiz", "organisation"} /\ inflight' = inflight \ {r}
            /\ UNCHANGED <<saver, started, done, block, background, cleanup, context>>
        BY <1>9 DEF Blank, Answered
    <2>2. cleanup => Awaits("project", started)'
        BY <2>1 DEF OrderInv, Staged, Awaits
    <2>3. Single' /\ Staged'
        BY <2>1, <2>2, OrderKept DEF OrderInv
    <2>4. Blamed'
        BY <2>1 DEF OrderInv, Blamed
    <2> QED
        BY <2>3, <2>4 DEF OrderInv
<1> QED
    BY <1>1, <1>2, <1>3, <1>4, <1>5, <1>6, <1>7, <1>8, <1>9, StepKinds, BeginOrder, FailingOrder,
       ProjectArrivesOrder, ListArrivesOrder, OrganisationArrivesOrder

LEMMA OrderInit == Init => OrderInv
BY SaverAssumption DEF Init, OrderInv, Single, Staged, Blamed, BeforeProject, BeforeList, Awaits

-----------------------------------------------------------------------------
(* Nothing is lost: what is not in the context yet is still to come or was withheld *)

Pending(o) == block # NoBlock /\ o \in block.rest

\* The object went through its turn: it is linked, and each of its images is
\* named or on its way.
Handled(o) ==
    /\ Fact(o, "linked") \in context
    /\ \A i \in ImagesOf(o) :
           Request("image", o, i) \in inflight \cup done \/ Fact(o, i) \in context

Quizzed(l) ==
    \/ Ask("quiz", l) \in inflight
    \/ Exists(QuizObject(l)) \in context /\ Fact(QuizObject(l), "linked") \in context
    \/ QuizObject(l) \in withheld

OrganisationPromise(k) ==
    \/ Awaits("organisation", k)
    \/ Exists(OrganisationObject(k)) \in context /\ Handled(OrganisationObject(k))
    \/ OrganisationObject(k) \in withheld

CoinsPromise(k) ==
    \/ Awaits("coins", k)
    \/ \A o \in CoinObjects(k) :
           \/ o \in withheld
           \/ Exists(o) \in context /\ (Pending(o) \/ Handled(o))

LocationsPromise(k) ==
    \/ Awaits("locations", k)
    \/ \A o \in LocationObjects(k) :
           \/ o \in withheld /\ QuizObject(o) \in withheld
           \/ Exists(o) \in context /\ (Pending(o) \/ (Handled(o) /\ Quizzed(o)))

\* What is in the context is in the store, except for the organisation's file
\* name, or a loop that ends with a save is under way or still to come.
SavePromise(k) ==
    \/ Awaits("coins", k) \/ Looping(k)
    \/ \A f \in context : f.obj.from = k =>
           f \in store \/ (f.obj.kind = "organisation" /\ f.what \in Images)

Promises(k) ==
    /\ Exists(ProjectObject(k)) \in context
    /\ OrganisationPromise(k) /\ CoinsPromise(k) /\ LocationsPromise(k)
    /\ SavePromise(k)

\* The latest Saver, once it has its project, while nothing of it failed.
Healthy(k) == k = started /\ running /\ ~saver[k].failed /\ ~Awaits("project", k)

PromiseInv ==
    /\ running => started # 0
    /\ \A k \in 1..started : Healthy(k) => Promises(k)

\* A step that keeps the promises of Saver k: it removes nothing from the
\* context, and takes an image, a quiz or an object off the lists only by handling it.
Keeps(k) ==
    /\ saver'[k].project = saver[k].project
    /\ context \subseteq context'
    /\ withheld \subseteq withheld'
    /\ \A r \in inflight \cup done :
           r.kind = "image" /\ r.obj.from = k /\ Exists(r.obj) \in context =>
               r \in inflight' \cup done' \/ Fact(r.obj, r.image) \in context'
    /\ \A r \in inflight :
           r.kind = "quiz" /\ r.obj.from = k /\ Exists(r.obj) \in context =>
               r \in inflight' \/ Quizzed(r.obj)'
    /\ \A o \in Objects :
           o.from = k /\ Pending(o) /\ Exists(o) \in context =>
               Pending(o)' \/ (Handled(o)' /\ (o.kind = "location" => Quizzed(o)'))

LEMMA HandledKept ==
    ASSUME NEW k, Keeps(k), NEW o \in Objects, o.from = k, Exists(o) \in context, Handled(o)
    PROVE  Handled(o)'
<1>1. Fact(o, "linked") \in context'
    BY DEF Keeps, Handled
<1>2. ASSUME NEW i \in ImagesOf(o)
      PROVE  Request("image", o, i) \in inflight' \cup done' \/ Fact(o, i) \in context'
    <2> DEFINE r == Request("image", o, i)
    <2>1. r.kind = "image" /\ r.obj = o /\ r.image = i
        BY DEF Request
    <2> HIDE DEF r
    <2>2. r \in inflight \cup done \/ Fact(o, i) \in context
        BY DEF Handled, r
    <2>3. r \in inflight' \cup done' \/ Fact(o, i) \in context'
        BY <2>1, <2>2 DEF Keeps
    <2> QED
        BY <2>3 DEF r
<1> QED
    BY <1>1, <1>2 DEF Handled

LEMMA QuizzedKept ==
    ASSUME NEW k, Keeps(k), NEW o \in Objects, o.from = k, Exists(o) \in context, Quizzed(o)
    PROVE  Quizzed(o)'
<1>1. CASE Ask("quiz", o) \in inflight
    <2>1. Ask("quiz", o).kind = "quiz" /\ Ask("quiz", o).obj = o
        BY DEF Ask, Request
    <2>2. Ask("quiz", o) \in inflight' \/ Quizzed(o)'
        BY <1>1, <2>1 DEF Keeps
    <2> QED
        BY <2>2 DEF Quizzed
<1>2. CASE Exists(QuizObject(o)) \in context /\ Fact(QuizObject(o), "linked") \in context
    BY <1>2 DEF Keeps, Quizzed
<1>3. CASE QuizObject(o) \in withheld
    BY <1>3 DEF Keeps, Quizzed
<1> QED
    BY <1>1, <1>2, <1>3 DEF Quizzed

LEMMA SameObjects ==
    ASSUME NEW k, saver'[k].project = saver[k].project
    PROVE  /\ ProjectObject(k)' = ProjectObject(k)
           /\ OrganisationObject(k)' = OrganisationObject(k)
           /\ CoinObjects(k)' = CoinObjects(k)
           /\ LocationObjects(k)' = LocationObjects(k)
BY DEF ProjectObject, OrganisationObject, CoinObjects, LocationObjects

LEMMA OrganisationKept ==
    ASSUME SaverInv, NEW k \in 1..started, Keeps(k), OrganisationPromise(k),
           Awaits("organisation", k) => Awaits("organisation", k)'
    PROVE  OrganisationPromise(k)'
<1> DEFINE o == OrganisationObject(k)
<1>1. o \in Objects /\ o.from = k /\ OrganisationObject(k)' = o
    BY ObjectsOf, SameObjects DEF SaverInv, Keeps
<1>2. CASE Exists(o) \in context /\ Handled(o)
    <2>1. Handled(o)'
        BY <1>1, <1>2, HandledKept
    <2>2. Exists(o) \in context'
        BY <1>2 DEF Keeps
    <2> QED
        BY <1>1, <2>1, <2>2 DEF OrganisationPromise, Handled
<1>3. CASE o \in withheld
    BY <1>1, <1>3 DEF OrganisationPromise, Keeps
<1> QED
    BY <1>2, <1>3 DEF OrganisationPromise

LEMMA CoinsKept ==
    ASSUME SaverInv, NEW k \in 1..started, Keeps(k), CoinsPromise(k),
           Awaits("coins", k) => Awaits("coins", k)'
    PROVE  CoinsPromise(k)'
<1>1. CoinObjects(k)' = CoinObjects(k)
    BY SameObjects DEF Keeps
<1>2. ASSUME NEW o \in CoinObjects(k), Exists(o) \in context, Pending(o) \/ Handled(o)
      PROVE  Exists(o) \in context' /\ (Pending(o)' \/ Handled(o)')
    <2>1. o \in Objects /\ o.from = k
        BY ObjectsOf DEF SaverInv
    <2>2. CASE Pending(o)
        BY <1>2, <2>1, <2>2 DEF Keeps
    <2>3. CASE Handled(o)
        BY <1>2, <2>1, <2>3, HandledKept DEF Keeps
    <2> QED
        BY <1>2, <2>2, <2>3
<1>3. withheld \subseteq withheld'
    BY DEF Keeps
<1> QED
    BY <1>1, <1>2, <1>3 DEF CoinsPromise

LEMMA LocationsKept ==
    ASSUME SaverInv, NEW k \in 1..started, Keeps(k), LocationsPromise(k),
           Awaits("locations", k) => Awaits("locations", k)'
    PROVE  LocationsPromise(k)'
<1>1. LocationObjects(k)' = LocationObjects(k)
    BY SameObjects DEF Keeps
<1>2. ASSUME NEW o \in LocationObjects(k), Exists(o) \in context,
             Pending(o) \/ (Handled(o) /\ Quizzed(o))
      PROVE  Exists(o) \in context' /\ (Pending(o)' \/ (Handled(o)' /\ Quizzed(o)'))
    <2>1. o \in Objects /\ o.from = k /\ o.kind = "location"
        BY ObjectsOf DEF SaverInv, LocationObjects, Object
    <2>2. CASE Pending(o)
        BY <1>2, <2>1, <2>2 DEF Keeps
    <2>3. CASE Handled(o) /\ Quizzed(o)
        BY <1>2, <2>1, <2>3, HandledKept, QuizzedKept DEF Keeps
    <2> QED
        BY <1>2, <2>2, <2>3
<1>3. withheld \subseteq withheld'
    BY DEF Keeps
<1> QED
    BY <1>1, <1>2, <1>3 DEF LocationsPromise

LEMMA SaveKept ==
    ASSUME NEW k, SavePromise(k),
           \/ store' = context'
           \/ /\ Awaits("coins", k) => Awaits("coins", k)' \/ Looping(k)'
              /\ Looping(k) => Looping(k)'
              /\ store \subseteq store'
              /\ \A f \in context' : f \in context \/ f.obj.from # k
                                       \/ (f.obj.kind = "organisation" /\ f.what \in Images)
    PROVE  SavePromise(k)'
BY DEF SavePromise

\* A step that keeps the promises and takes none of the first requests of Saver k
\* leaves all of them standing.
LEMMA PromisesKept ==
    ASSUME SaverInv, NEW k \in 1..started, Promises(k), Keeps(k), SavePromise(k)',
           \A kind \in {"coins", "locations", "organisation"} : Awaits(kind, k) => Awaits(kind, k)'
    PROVE  Promises(k)'
<1>1. Exists(ProjectObject(k)') \in context'
    BY SameObjects DEF Keeps, Promises
<1>2. OrganisationPromise(k)' /\ CoinsPromise(k)' /\ LocationsPromise(k)'
    BY OrganisationKept, CoinsKept, LocationsKept DEF Promises
<1> QED
    BY <1>1, <1>2 DEF Promises, Exists

\* The steps that do not concern Saver k, or only one of its images.
LEMMA OthersKeep ==
    ASSUME NEW k, saver'[k].project = saver[k].project, context \subseteq context',
           withheld \subseteq withheld',
           \A r \in inflight : r.obj.from = k => r \in inflight' \/ (r.kind = "image" /\ r \in done'),
           \A r \in done : r.obj.from = k => r \in done' \/ Fact(r.obj, r.image) \in context'
                                                       \/ Exists(r.obj) \notin context,
           \A o \in Objects : o.from = k /\ Pending(o) => Pending(o)'
    PROVE  /\ Keeps(k)
           /\ \A kind \in {"coins", "locations", "organisation"} : Awaits(kind, k) => Awaits(kind, k)'
<1>1. Keeps(k)
    BY DEF Keeps
<1>2. \A kind \in {"coins", "locations", "organisation"} : Awaits(kind, k) => Awaits(kind, k)'
    BY DEF Awaits
<1> QED
    BY <1>1, <1>2

\* The first reply: everything else is asked for.
LEMMA ProjectPromises ==
    ASSUME SaverInv, OrderInv, NEW k \in 1..started, ProjectArrives(k), ~saver[k].failed
    PROVE  Promises(k)'
<1> DEFINE o == ProjectObject(k)
<1>1. /\ context' = context \cup Insert({o})
      /\ {Ask("coins", o), Ask("organisation", o), Ask("locations", o)} \subseteq inflight'
      /\ saver' = saver
    <2>1. ~saver[k].errorThrown
        BY DEF OrderInv, Blamed
    <2> QED
        BY <2>1 DEF ProjectArrives
<1>2. o.from = k /\ ProjectObject(k)' = o
    BY <1>1, ObjectsOf, SameObjects DEF SaverInv
<1>3. \A kind : Ask(kind, o).kind = kind /\ Ask(kind, o).obj.from = k
    BY <1>2 DEF Ask, Request
<1>4. Awaits("coins", k)' /\ Awaits("organisation", k)' /\ Awaits("locations", k)'
    BY <1>1, <1>3 DEF Awaits
<1>5. Exists(ProjectObject(k)') \in context'
    BY <1>1, <1>2 DEF Insert
<1> QED
    BY <1>4, <1>5 DEF Promises, OrganisationPromise, CoinsPromise, LocationsPromise, SavePromise, Exists

LEMMA ListPromises ==
    ASSUME SaverInv, OrderInv, NEW k \in 1..started, NEW kind \in {"coins", "locations"},
           ListArrives(kind, k), Promises(k)
    PROVE  Promises(k)'
<1>1. PICK r \in Answered(kind, k), objects \in SUBSET ListObjects(kind, k) :
        /\ MayReply(k)
        /\ inflight' = inflight \ {r}
        /\ context' = context \cup Insert(objects)
        /\ block' = [kind |-> kind, from |-> k, rest |-> objects]
        /\ withheld' = withheld \cup WithQuizzes(ListObjects(kind, k) \ objects)
        /\ UNCHANGED <<saver, done, store>>
    BY DEF ListArrives
<1>2. r \in inflight /\ r.kind = kind /\ r.obj.from = k
    BY DEF Answered
<1>3. block' # NoBlock
    <2>1. block'.kind # NoBlock.kind
        BY <1>1 DEF NoBlock
    <2> QED
        BY <2>1
<1>4. \A o \in objects : Exists(o) \in context' /\ Pending(o)'
    BY <1>1, <1>3 DEF Insert, Pending
<1>5. Keeps(k)
    BY <1>1, <1>2 DEF Keeps, Pending, MayReply, MainIdle
<1>6. \A x \in {"coins", "locations", "organisation"} \ {kind} : Awaits(x, k) => Awaits(x, k)'
    BY <1>1, <1>2 DEF Awaits
<1>7. SavePromise(k)'
    BY <1>1, <1>3 DEF SavePromise, Looping
<1>8. Exists(ProjectObject(k)') \in context' /\ OrganisationPromise(k)'
    BY <1>5, <1>6, SameObjects, OrganisationKept DEF Keeps, Promises
<1>9. CASE kind = "coins"
    <2>1. LocationsPromise(k)'
        BY <1>5, <1>6, <1>9, LocationsKept DEF Promises
    <2>2. CoinObjects(k)' = ListObjects(kind, k)
        BY <1>1, <1>9, SameObjects DEF ListObjects
    <2>3. ListObjects(kind, k) \ objects \subseteq withheld'
        BY <1>1 DEF WithQuizzes
    <2>4. CoinsPromise(k)'
        BY <1>4, <2>2, <2>3 DEF CoinsPromise
    <2> QED
        BY <1>7, <1>8, <2>1, <2>4 DEF Promises, Exists
<1>10. CASE kind = "locations"
    <2>1. CoinsPromise(k)'
        BY <1>5, <1>6, <1>10, CoinsKept DEF Promises
    <2>2. LocationObjects(k)' = ListObjects(kind, k)
        BY <1>1, <1>10, SameObjects DEF ListObjects
    <2>3. \A o \in ListObjects(kind, k) \ objects : o \in withheld' /\ QuizObject(o) \in withheld'
        <3>1. \A o \in ListObjects(kind, k) : o.kind = "location"
            BY <1>10 DEF ListObjects, LocationObjects, Object
        <3> QED
            BY <1>1, <3>1 DEF WithQuizzes
    <2>4. LocationsPromise(k)'
        BY <1>4, <2>2, <2>3 DEF LocationsPromise
    <2> QED
        BY <1>7, <1>8, <2>1, <2>4 DEF Promises, Exists
<1> QED
    BY <1>9, <1>10

LEMMA OrganisationPromises ==
    ASSUME SaverInv, OrderInv, NEW k \in 1..started, OrganisationArrives(k), Promises(k)
    PROVE  Promises(k)'
<1> DEFINE o == OrganisationObject(k)
           ctx == context \cup Insert({o})
<1>1. PICK r \in Answered("organisation", k) :
        /\ MayReply(k)
        /\ inflight' = (inflight \ {r}) \cup ImageRequests(o)
        /\ SaveContext(IF Exists(ProjectObject(k)) \in ctx THEN ctx \cup Set(o, "linked", ctx) ELSE ctx)
        /\ UNCHANGED <<saver, done, block, withheld>>
    BY DEF OrganisationArrives
<1>2. r \in inflight /\ r.kind = "organisation" /\ r.obj.from = k
    BY DEF Answered
<1>3. Exists(o) \in ctx /\ Exists(ProjectObject(k)) \in ctx
    BY DEF Insert, Promises
<1>4. context' = ctx \cup {Fact(o, "linked")} /\ store' = context'
    BY <1>1, <1>3 DEF SaveContext, Set
<1>5. PICK org : org = o
    OBVIOUS
<1>6. OrganisationObject(k)' = org
    BY <1>1, <1>5, SameObjects
<1>7. OrganisationPromise(k)'
    <2>1. Exists(org) \in context' /\ Fact(org, "linked") \in context'
        BY <1>3, <1>4, <1>5
    <2>2. ImageRequests(org) \subseteq inflight'
        BY <1>1, <1>5
    <2>3. Handled(org)'
        BY <2>1, <2>2 DEF Handled, ImageRequests
    <2> QED
        BY <1>6, <2>1, <2>3 DEF OrganisationPromise
<1> HIDE DEF o, ctx
<1>8. context \subseteq context'
    BY <1>4 DEF ctx
<1>9. Keeps(k)
    BY <1>1, <1>2, <1>8 DEF Keeps, Pending, MayReply, MainIdle
<1>10. \A x \in {"coins", "locations"} : Awaits(x, k) => Awaits(x, k)'
    BY <1>1, <1>2 DEF Awaits
<1>11. CoinsPromise(k)' /\ LocationsPromise(k)'
    BY <1>9, <1>10, CoinsKept, LocationsKept DEF Promises
<1>12. SavePromise(k)'
    BY <1>4, SaveKept DEF Promises
<1>13. Exists(ProjectObject(k)') \in context'
    BY <1>1, <1>3, <1>4, SameObjects
<1> QED
    BY <1>7, <1>11, <1>12, <1>13 DEF Promises, Exists

LEMMA TurnPromises ==
    ASSUME SaverInv, OrderInv, block # NoBlock, NEW o \in block.rest,
           NEW asked \in QuizAsked(block.from), Turn(o, asked),
           NEW k \in 1..started, ~saver[k].failed, Promises(k)
    PROVE  Promises(k)'
<1>1. /\ o \in Objects /\ o.from = block.from
      /\ block'.from = block.from /\ block'.rest = block.rest \ {o} /\ block' # NoBlock
      /\ context \subseteq context'
      /\ \A f \in context' : f \in context \/ f.obj = o
      /\ inflight \subseteq inflight'
    BY TurnType
<1>2. UNCHANGED <<saver, done, store, withheld>>
    BY DEF Turn
<1>3. Exists(o) \in context /\ o.from = k => Handled(o)' /\ (o.kind = "location" => Quizzed(o)')
    <2>1. SUFFICES ASSUME Exists(o) \in context, o.from = k
                   PROVE  Handled(o)' /\ (o.kind = "location" => Quizzed(o)')
        OBVIOUS
    <2>2. background # [kind |-> "checked", from |-> k]
        <3>1. [kind |-> "checked", from |-> k].kind # Idle.kind
            BY DEF Idle
        <3>2. [kind |-> "checked", from |-> k].from = k
            OBVIOUS
        <3> QED
            BY <3>1, <3>2 DEF OrderInv, Blamed
    <2>3. asked = TRUE
        BY <1>1, <2>1, <2>2 DEF QuizAsked
    <2>4. Fact(o, "linked") \in context'
        BY <1>1, <2>1 DEF Turn, Set, Promises
    <2>5. ImageRequests(o) \subseteq inflight' /\ (o.kind = "location" => Ask("quiz", o) \in inflight')
        BY <2>3 DEF Turn
    <2> QED
        BY <2>4, <2>5 DEF Handled, Quizzed, ImageRequests
<1>4. \A x : Pending(x) => Pending(x)' \/ x = o
    BY <1>1 DEF Pending
<1>5. Keeps(k)
    BY <1>1, <1>2, <1>3, <1>4 DEF Keeps
<1>6. \A x \in {"coins", "locations", "organisation"} : Awaits(x, k) => Awaits(x, k)'
    BY <1>1 DEF Awaits
<1>7. SavePromise(k)'
    <2>1. Looping(k) <=> block.from = k
        BY DEF Looping
    <2>2. Looping(k)' <=> block.from = k
        BY <1>1 DEF Looping
    <2>3. CASE block.from = k
        BY <2>2, <2>3 DEF SavePromise
    <2>4. CASE block.from # k
        BY <1>1, <1>2, <1>6, <2>1, <2>4, SaveKept DEF Promises
    <2> QED
        BY <2>3, <2>4
<1> QED
    BY <1>5, <1>6, <1>7, PromisesKept

LEMMA QuizPromises ==
    ASSUME SaverInv, OrderInv, NEW j \in 1..started, QuizArrives(j),
           NEW k \in 1..started, Promises(k)
    PROVE  Promises(k)'
<1>1. PICK r \in inflight :
        /\ r.kind = "quiz" /\ r.obj \in Objects
        /\ inflight' = inflight \ {r}
        /\ context \subseteq context' /\ store' = context'
        /\ Exists(QuizObject(r.obj)) \in context'
        /\ Exists(r.obj) \in context => Fact(QuizObject(r.obj), "linked") \in context'
        /\ UNCHANGED <<saver, done, block, withheld>>
    BY QuizArrivesEffect
<1>2. Exists(r.obj) \in context => Quizzed(r.obj)'
    BY <1>1 DEF Quizzed
<1>3. Keeps(k)
    BY <1>1, <1>2 DEF Keeps, Pending
<1>4. \A x \in {"coins", "locations", "organisation"} : Awaits(x, k) => Awaits(x, k)'
    BY <1>1 DEF Awaits
<1>5. SavePromise(k)'
    BY <1>1, SaveKept DEF Promises
<1> QED
    BY <1>3, <1>4, <1>5, PromisesKept

LEMMA ImageDonePromises ==
    ASSUME SaverInv, OrderInv, ImageDone, NEW k \in 1..started, Promises(k)
    PROVE  Promises(k)'
<1>1. PICK r \in done :
        /\ r.image \in Images
        /\ done' = done \ {r}
        /\ context' = context \cup Set(r.obj, r.image, context)
        /\ store' = context' \/ (store' = store /\ r.obj.kind = "organisation")
        /\ UNCHANGED <<saver, inflight, block, withheld>>
    BY ImageDoneEffect
<1>2. /\ Exists(r.obj) \in context => Fact(r.obj, r.image) \in context'
      /\ context \subseteq context'
      /\ \A f \in context' : f \in context \/ (f.obj = r.obj /\ f.what = r.image)
    BY <1>1 DEF Set, Fact
<1>3. /\ Keeps(k)
      /\ \A kind \in {"coins", "locations", "organisation"} : Awaits(kind, k) => Awaits(kind, k)'
    BY <1>1, <1>2, OthersKeep DEF Pending
<1>4. SavePromise(k)'
    BY <1>1, <1>2, <1>3, SaveKept DEF Promises, Looping
<1> QED
    BY <1>3, <1>4, PromisesKept

\* Steps of other Savers, of the player and of URLSession's queue.
LEMMA OtherPromises ==
    ASSUME SaverInv, NEW k \in 1..started, Promises(k),
           saver'[k].project = saver[k].project, context \subseteq context',
           withheld \subseteq withheld',
           store' = store \/ store' = context',
           \A f \in context' : f \in context \/ f.obj.from # k,
           \A r \in inflight : r.obj.from = k => r \in inflight' \/ (r.kind = "image" /\ r \in done'),
           done \subseteq done',
           block' = block \/ ~Looping(k)
    PROVE  Promises(k)'
<1>1. \A o \in Objects : o.from = k /\ Pending(o) => Pending(o)'
    BY DEF Pending, Looping, SaverInv, Requested
<1>2. /\ Keeps(k)
      /\ \A kind \in {"coins", "locations", "organisation"} : Awaits(kind, k) => Awaits(kind, k)'
    BY <1>1, OthersKeep
<1>3. SavePromise(k)'
    BY <1>2, SaveKept DEF Promises, Looping, SaverInv, Traceable
<1> QED
    BY <1>2, <1>3, PromisesKept

\* The quiz or the organisation of Saver k is withheld.
LEMMA BlankPromises ==
    ASSUME SaverInv, OrderInv, NEW k \in 1..started, Blank(k), Promises(k)
    PROVE  Promises(k)'
<1>1. PICK r \in Answered("quiz", k) \cup Answered("organisation", k) :
        /\ inflight' = inflight \ {r}
        /\ withheld' = withheld \cup {Withholds(r, k)}
        /\ store' = store \/ store' = context'
        /\ UNCHANGED <<saver, done, block, context>>
    BY DEF Blank
<1>2. r \in inflight /\ r.obj.from = k /\ r.kind \in {"quiz", "organisation"}
    BY DEF Answered
<1>3. r.kind = "quiz" => Quizzed(r.obj)'
    BY <1>1 DEF Quizzed, Withholds
<1>4. Keeps(k)
    BY <1>1, <1>2, <1>3 DEF Keeps, Pending
<1>5. \A x \in {"coins", "locations"} : Awaits(x, k) => Awaits(x, k)'
    BY <1>1, <1>2 DEF Awaits
<1>6. CoinsPromise(k)' /\ LocationsPromise(k)'
    BY <1>4, <1>5, CoinsKept, LocationsKept DEF Promises
<1>7. OrganisationPromise(k)'
    <2>1. CASE r.kind = "quiz"
        <3>1. Awaits("organisation", k) => Awaits("organisation", k)'
            BY <1>1, <2>1 DEF Awaits
        <3> QED
            BY <1>4, <3>1, OrganisationKept DEF Promises
    <2>2. CASE r.kind = "organisation"
        <3>1. OrganisationObject(k)' = Withholds(r, k)
            BY <1>1, <2>2, SameObjects DEF Withholds
        <3> QED
            BY <1>1, <3>1 DEF OrganisationPromise
    <2> QED
        BY <1>2, <2>1, <2>2
<1>8. SavePromise(k)'
    BY <1>1, <1>5, SaveKept DEF Promises, Looping, SaverInv, Traceable
<1>9. Exists(ProjectObject(k)') \in context'
    BY <1>1, SameObjects DEF Promises
<1> QED
    BY <1>6, <1>7, <1>8, <1>9 DEF Promises, Exists

\* Steps within a download change neither which Saver is the latest nor its project.
LEMMA Frame ==
    ASSUME SaverInv, OrderInv, [Next]_vars, ~Begin, ~Ends
    PROVE  /\ started' = started /\ running' = running
           /\ \A k \in 1..started : /\ saver'[k].project = saver[k].project
                                    /\ saver[k].failed => saver'[k].failed
<1>1. CASE UNCHANGED <<saver, started, running>>
    BY <1>1
<1>2. ASSUME NEW k \in 1..started, Failing(k)
      PROVE  /\ started' = started /\ running' = running
             /\ \A j \in 1..started : /\ saver'[j].project = saver[j].project
                                      /\ saver[j].failed => saver'[j].failed
    BY <1>2 DEF Failing
<1> QED
    BY <1>1, <1>2, StepKinds, TurnEffect, ImageDoneEffect
       DEF Bystander, CleanUp, LoopReturn, LoopEnd, Turn, ImageArrives,
           ProjectArrives, QuizArrives, OrganisationArrives, ListArrives, Blank, saverVars

\* The request for the project goes only with its reply.
LEMMA ProjectAwaited ==
    ASSUME SaverInv, OrderInv, [Next]_vars, ~Begin, ~Ends,
           NEW k \in 1..started, Awaits("project", k), ~ProjectArrives(k), ~Failing(k)
    PROVE  Awaits("project", k)'
<1>1. PICK q \in inflight : q.kind = "project" /\ q.obj.from = k
    BY DEF Awaits
<1> SUFFICES q \in inflight'
    BY <1>1 DEF Awaits
<1>2. CASE Bystander \/ CleanUp \/ LoopReturn \/ LoopEnd \/ ImageArrives
    BY <1>1, <1>2 DEF Bystander, CleanUp, LoopReturn, LoopEnd, ImageArrives, netVars
<1>3. CASE LoopTurn \/ ImageDone
    BY <1>3, TurnEffect, ImageDoneEffect DEF Turn
<1>4. ASSUME NEW j \in 1..started, Failing(j) \/ ProjectArrives(j) PROVE q \in inflight'
    <2>1. j # k
        BY <1>4
    <2>2. CASE Failing(j)
        BY <1>1, <2>1, <2>2 DEF Failing
    <2>3. CASE ProjectArrives(j)
        BY <1>1, <2>1, <2>3 DEF ProjectArrives, Answered
    <2> QED
        BY <1>4, <2>2, <2>3
<1>5. ASSUME NEW j \in 1..started, QuizArrives(j) \/ OrganisationArrives(j) \/ Blank(j)
      PROVE  q \in inflight'
    BY <1>1, <1>5 DEF QuizArrives, OrganisationArrives, Blank, Answered
<1>6. ASSUME NEW j \in 1..started, NEW kind \in {"coins", "locations"}, ListArrives(kind, j)
      PROVE  q \in inflight'
    BY <1>1, <1>6 DEF ListArrives, Answered
<1> QED
    BY <1>2, <1>3, <1>4, <1>5, <1>6, StepKinds

\* One step of a healthy download keeps its promises.
LEMMA HealthyStep ==
    ASSUME SaverInv, OrderInv, [Next]_vars, ~Begin, ~Ends, ~CleanUp,
           NEW k \in 1..started, ~saver[k].failed, ~saver'[k].failed, ~ProjectArrives(k),
           Promises(k)
    PROVE  Promises(k)'
<1>0. saver'[k].project = saver[k].project
    BY Frame
<1>1. CASE Bystander
    <2>1. /\ context \subseteq context' /\ (store' = store \/ store' = context')
          /\ \A f \in context' : f \in context \/ f.obj.from # k
          /\ UNCHANGED <<inflight, done, block, withheld>>
        BY <1>1 DEF Bystander, SaverInv, TypeOK
    <2> QED
        BY <1>0, <2>1, OtherPromises
<1>2. CASE LoopReturn \/ LoopEnd
    <2>1. /\ block' = NoBlock /\ context' = context
          /\ UNCHANGED <<inflight, done, withheld>>
          /\ store' = store \/ store' = context'
        BY <1>2 DEF LoopReturn, LoopEnd, SaveContext, netVars, dataVars
    <2>2. CASE Looping(k)
        <3>1. LoopEnd
            BY <1>2, <2>2 DEF LoopReturn, Looping, OrderInv, Blamed
        <3>2. block.rest = {} /\ store' = context'
            BY <3>1 DEF LoopEnd, SaveContext
        <3>3. \A o : ~Pending(o)
            BY <3>2 DEF Pending
        <3>4. /\ Keeps(k)
              /\ \A kind \in {"coins", "locations", "organisation"} : Awaits(kind, k) => Awaits(kind, k)'
            BY <1>0, <2>1, <3>3, OthersKeep
        <3>5. SavePromise(k)'
            BY <3>2, SaveKept DEF Promises
        <3> QED
            BY <3>4, <3>5, PromisesKept
    <2>3. CASE ~Looping(k)
        BY <1>0, <2>1, <2>3, OtherPromises
    <2> QED
        BY <2>2, <2>3
<1>3. CASE LoopTurn
    <2>1. block # NoBlock
        BY <1>3 DEF LoopTurn
    <2> QED
        BY <1>3, <2>1, TurnEffect, TurnPromises
<1>4. CASE ImageArrives
    <2>1. PICK r \in inflight :
            /\ r.kind = "image" /\ inflight' = inflight \ {r} /\ done' = done \cup {r}
            /\ UNCHANGED <<block, context, store, withheld>>
        BY <1>4 DEF ImageArrives
    <2> QED
        BY <1>0, <2>1, OtherPromises
<1>5. CASE ImageDone
    BY <1>5, ImageDonePromises
<1>6. ASSUME NEW j \in 1..started, Failing(j) PROVE Promises(k)'
    BY <1>0, <1>6, OtherPromises DEF Failing
<1>7. ASSUME NEW j \in 1..started, ProjectArrives(j) PROVE Promises(k)'
    <2>0. j # k
        BY <1>7
    <2>1. PICK r \in Answered("project", j) :
            /\ MayReply(j) /\ context' = context \cup Insert({ProjectObject(j)})
            /\ inflight \ {r} \subseteq inflight'
            /\ UNCHANGED <<done, block, store, withheld>>
        BY <1>7 DEF ProjectArrives
    <2>2. r.obj.from = j /\ \A f \in Insert({ProjectObject(j)}) : f.obj.from = j
        BY ObjectsOf, InsertType DEF SaverInv, Answered
    <2> QED
        BY <1>0, <2>0, <2>1, <2>2, OtherPromises
<1>8. ASSUME NEW j \in 1..started, NEW kind \in {"coins", "locations"}, ListArrives(kind, j)
      PROVE  Promises(k)'
    <2>1. CASE j = k
        BY <1>8, <2>1, ListPromises
    <2>2. CASE j # k
        <3>1. PICK r \in Answered(kind, j), objects \in SUBSET ListObjects(kind, j) :
                /\ MayReply(j) /\ context' = context \cup Insert(objects)
                /\ inflight' = inflight \ {r}
                /\ withheld \subseteq withheld'
                /\ UNCHANGED <<done, store>>
            BY <1>8 DEF ListArrives
        <3>2. r.obj.from = j /\ objects \subseteq Objects /\ \A o \in objects : o.from = j
            BY ListType DEF SaverInv, Answered
        <3>3. \A f \in Insert(objects) : f.obj.from = j
            BY <3>2, InsertType
        <3>4. ~Looping(k)
            BY <3>1 DEF MayReply, MainIdle, Looping
        <3> QED
            BY <1>0, <2>2, <3>1, <3>2, <3>3, <3>4, OtherPromises
    <2> QED
        BY <2>1, <2>2
<1>9. ASSUME NEW j \in 1..started, QuizArrives(j) PROVE Promises(k)'
    BY <1>9, QuizPromises
<1>10. ASSUME NEW j \in 1..started, OrganisationArrives(j) PROVE Promises(k)'
    <2>1. CASE j = k
        BY <1>10, <2>1, OrganisationPromises
    <2>2. CASE j # k
        <3> DEFINE o == OrganisationObject(j)
                   ctx == context \cup Insert({o})
        <3>1. PICK r \in Answered("organisation", j) :
                /\ SaveContext(IF Exists(ProjectObject(j)) \in ctx
                               THEN ctx \cup Set(o, "linked", ctx) ELSE ctx)
                /\ inflight \ {r} \subseteq inflight'
                /\ UNCHANGED <<done, block, withheld>>
            BY <1>10 DEF OrganisationArrives
        <3>2. r.obj.from = j /\ o \in Objects /\ o.from = j
            BY ObjectsOf DEF SaverInv, Answered
        <3>3. \A f \in Insert({o}) \cup Set(o, "linked", ctx) : f.obj.from = j
            BY <3>2, InsertType, SetType
        <3>4. /\ context \subseteq context' /\ store' = context'
              /\ \A f \in context' : f \in context \/ f.obj.from = j
            BY <3>1, <3>3 DEF SaveContext
        <3> HIDE DEF o, ctx
        <3> QED
            BY <1>0, <2>2, <3>1, <3>2, <3>4, OtherPromises
    <2> QED
        BY <2>1, <2>2
<1>11. ASSUME NEW j \in 1..started, Blank(j) PROVE Promises(k)'
    <2>1. CASE j = k
        BY <1>11, <2>1, BlankPromises
    <2>2. CASE j # k
        <3>1. PICK r \in Answered("quiz", j) \cup Answered("organisation", j) :
                /\ inflight' = inflight \ {r}
                /\ withheld \subseteq withheld'
                /\ store' = store \/ store' = context'
                /\ UNCHANGED <<done, block, context>>
            BY <1>11 DEF Blank
        <3>2. r.obj.from = j
            BY DEF Answered
        <3> QED
            BY <1>0, <2>2, <3>1, <3>2, OtherPromises
    <2> QED
        BY <2>1, <2>2
<1> QED
    BY <1>1, <1>2, <1>3, <1>4, <1>5, <1>6, <1>7, <1>8, <1>9, <1>10, <1>11, StepKinds

LEMMA PromiseStep ==
    SaverInv /\ OrderInv /\ PromiseInv /\ [Next]_vars => PromiseInv'
<1> SUFFICES ASSUME SaverInv, OrderInv, PromiseInv, [Next]_vars PROVE PromiseInv'
    OBVIOUS
<1>1. CASE Begin
    <2>1. PICK p \in Projects, ctx \in SUBSET context, rows \in SUBSET context :
            StartSaver(p, ctx, rows)
        BY <1>1 DEF Begin
    <2>2. PICK q : q = Ask("project", Object("project", p, started + 1))
        OBVIOUS
    <2>3. q \in inflight' /\ q.kind = "project" /\ q.obj.from = started'
        BY <2>1, <2>2 DEF StartSaver, Ask, Request, Object
    <2>4. started \in Nat /\ started' = started + 1
        BY <2>1 DEF StartSaver, SaverInv, TypeOK
    <2>5. \A k \in 1..started' : ~Healthy(k)'
        BY <2>3 DEF Healthy, Awaits
    <2> QED
        BY <2>4, <2>5 DEF PromiseInv
<1>2. CASE Ends
    BY <1>2 DEF Ends, PromiseInv, Healthy
<1>3. CASE ~Begin /\ ~Ends
    <2>1. /\ started' = started /\ running' = running
          /\ \A k \in 1..started : saver[k].failed => saver'[k].failed
        BY <1>3, Frame
    <2>2. ASSUME NEW k \in 1..started, Healthy(k)' PROVE Promises(k)'
        <3>1. k = started /\ running /\ ~saver[k].failed /\ ~saver'[k].failed
            BY <2>1, <2>2 DEF Healthy
        <3>2. CASE ProjectArrives(k)
            BY <3>1, <3>2, ProjectPromises
        <3>3. CASE ~ProjectArrives(k)
            <4>1. ~Failing(k)
                BY <3>1 DEF Failing
            <4>2. ~Awaits("project", k)
                BY <1>3, <2>2, <3>3, <4>1, ProjectAwaited DEF Healthy
            <4>3. ~CleanUp
                BY <3>1, <4>2 DEF CleanUp, OrderInv, Staged
            <4>4. Promises(k)
                BY <3>1, <4>2 DEF PromiseInv, Healthy
            <4> QED
                BY <1>3, <3>1, <3>3, <4>3, <4>4, HealthyStep
        <3> QED
            BY <3>2, <3>3
    <2> QED
        BY <2>1, <2>2 DEF PromiseInv
<1> QED
    BY <1>1, <1>2, <1>3

LEMMA PromiseInit == Init => PromiseInv
BY DEF Init, PromiseInv, Healthy

\* Among the facts of a project, only the organisation's file name goes unsaved.
LEMMA OrganisationImage ==
    ASSUME NEW k, NEW f \in Complete(k), f.obj.kind = "organisation", f.what \in Images
    PROVE  f \in Unsaved(k)
<1> DEFINE parts == {OrganisationObject(k)} \cup CoinObjects(k) \cup LocationObjects(k)
           quizzes == {QuizObject(l) : l \in LocationObjects(k)}
<1>1. \A o, w : Fact(o, w).obj = o /\ Fact(o, w).what = w
    BY DEF Fact
<1>2. \A g \in Insert({ProjectObject(k)} \cup parts \cup quizzes) : g.what \notin Images
    BY <1>1 DEF Insert, Exists, Images
<1>3. \A g \in {Fact(x, "linked") : x \in parts \cup quizzes} : g.what \notin Images
    BY <1>1 DEF Images
<1>4. ASSUME NEW x \in parts, NEW i \in ImagesOf(x), x.kind = "organisation"
      PROVE  x = OrganisationObject(k) /\ i = "image"
    <2>1. \A o \in CoinObjects(k) \cup LocationObjects(k) : o.kind # "organisation"
        BY DEF CoinObjects, LocationObjects, Object
    <2>2. i = "image"
        BY <1>4 DEF ImagesOf
    <2> QED
        BY <1>4, <2>1, <2>2
<1> HIDE DEF parts, quizzes
<1>5. \A g \in UNION {{Fact(x, i) : i \in ImagesOf(x)} : x \in parts} :
          g.obj.kind = "organisation" => g \in Unsaved(k)
    BY <1>1, <1>4 DEF Unsaved
<1> QED
    BY <1>2, <1>3, <1>5 DEF Complete, parts, quizzes

\* A healthy download with nothing outstanding has kept every promise.
LEMMA QuietComplete ==
    SaverInv /\ OrderInv /\ PromiseInv => QuietMeansComplete
<1> SUFFICES ASSUME SaverInv, OrderInv, PromiseInv, NEW k, k = started,
                    running, Outstanding(k) = {}, ~saver[k].failed, ~cleanup
             PROVE  /\ Complete(k) \ Missing(k) \subseteq context
                    /\ (Complete(k) \ Missing(k)) \ Unsaved(k) \subseteq store
    BY DEF QuietMeansComplete
<1>1. k \in 1..started
    BY DEF PromiseInv, SaverInv, TypeOK
<1>2. /\ \A r \in inflight \cup done : r.obj.from # k
      /\ ~Looping(k)
    BY DEF Outstanding, Looping
<1>3. \A kind : ~Awaits(kind, k)
    BY <1>2 DEF Awaits
<1>4. Promises(k)
    BY <1>1, <1>3 DEF PromiseInv, Healthy
<1>5. \A o \in Objects : o.from = k => ~Pending(o)
    BY <1>2 DEF Pending, Looping, SaverInv, Requested
<1>6. ASSUME NEW o \in Objects, o.from = k, Handled(o)
      PROVE  Fact(o, "linked") \in context /\ \A i \in ImagesOf(o) : Fact(o, i) \in context
    <2>1. \A i : Request("image", o, i).obj = o
        BY DEF Request
    <2> QED
        BY <1>2, <1>6, <2>1 DEF Handled
<1>7. ASSUME NEW o \in Objects, o.from = k, Quizzed(o), QuizObject(o) \notin withheld
      PROVE  Exists(QuizObject(o)) \in context /\ Fact(QuizObject(o), "linked") \in context
    <2>1. Ask("quiz", o).obj = o
        BY DEF Ask, Request
    <2> QED
        BY <1>2, <1>7, <2>1 DEF Quizzed
<1> DEFINE parts == {OrganisationObject(k)} \cup CoinObjects(k) \cup LocationObjects(k)
           quizzes == {QuizObject(l) : l \in LocationObjects(k)}
<1>8. \A o \in parts : o \in Objects /\ o.from = k
    BY <1>1, ObjectsOf DEF SaverInv
<1>9. \A o \in parts : o \notin withheld => Exists(o) \in context /\ Handled(o)
    BY <1>3, <1>4, <1>5, <1>8 DEF Promises, OrganisationPromise, CoinsPromise, LocationsPromise
<1>10. \A l \in LocationObjects(k) : QuizObject(l) \notin withheld => Quizzed(l)
    BY <1>3, <1>4, <1>5, <1>8 DEF Promises, LocationsPromise
<1>11. \A o \in quizzes : o \notin withheld => Exists(o) \in context /\ Fact(o, "linked") \in context
    BY <1>7, <1>8, <1>10
<1>12. \A o \in parts : o \notin withheld =>
           Fact(o, "linked") \in context /\ \A i \in ImagesOf(o) : Fact(o, i) \in context
    BY <1>6, <1>8, <1>9
<1>13. Complete(k) \ Missing(k) \subseteq context
    <2>0. \A o, w : Fact(o, w).obj = o
        BY DEF Fact
    <2>1. Exists(ProjectObject(k)) \in context
        BY <1>4 DEF Promises
    <2> HIDE DEF parts, quizzes
    <2>2. \A f \in Insert({ProjectObject(k)} \cup parts \cup quizzes) :
              f.obj \in withheld \/ f \in context
        BY <1>9, <1>11, <2>0, <2>1 DEF Insert, Exists
    <2>3. \A f \in {Fact(x, "linked") : x \in parts \cup quizzes} :
              f.obj \in withheld \/ f \in context
        BY <1>11, <1>12, <2>0
    <2>4. \A f \in UNION {{Fact(x, i) : i \in ImagesOf(x)} : x \in parts} :
              f.obj \in withheld \/ f \in context
        BY <1>12, <2>0
    <2>5. \A f \in Complete(k) : f.obj \in withheld \/ f \in context
        BY <2>2, <2>3, <2>4 DEF Complete, parts, quizzes
    <2> QED
        BY <2>5 DEF Missing
<1>14. \A f \in Complete(k) : f.obj.from = k
    <2>1. ProjectObject(k).from = k /\ \A o \in parts \cup quizzes : o.from = k
        BY <1>1, <1>8, ObjectsOf, QuizObjectType DEF SaverInv
    <2>2. \A o, w : Fact(o, w).obj = o
        BY DEF Fact
    <2> HIDE DEF parts, quizzes
    <2>3. \A f \in Insert({ProjectObject(k)} \cup parts \cup quizzes) : f.obj.from = k
        BY <2>1, <2>2 DEF Insert, Exists
    <2>4. \A f \in {Fact(x, "linked") : x \in parts \cup quizzes} : f.obj.from = k
        BY <2>1, <2>2
    <2>5. \A f \in UNION {{Fact(x, i) : i \in ImagesOf(x)} : x \in parts} : f.obj.from = k
        BY <2>1, <2>2
    <2> QED
        BY <2>3, <2>4, <2>5 DEF Complete, parts, quizzes
<1>16. (Complete(k) \ Missing(k)) \ Unsaved(k) \subseteq store
    BY <1>2, <1>3, <1>4, <1>13, <1>14, OrganisationImage DEF Promises, SavePromise
<1> QED
    BY <1>13, <1>16

-----------------------------------------------------------------------------
(* The files behind the names *)

\* An object that is given a file name was saved before; so was every
\* organisation of a Saver, and every object whose image is on its way, once the
\* loop that asked for the image is over, unless that loop was cut short.
SavedFirst ==
    /\ \A f \in context : f.what \in Images => f.obj.from \in 1..started /\ Exists(f.obj) \in store
    /\ \A f \in context :
           f.what = "exists" /\ f.obj.kind = "organisation" /\ f.obj.from # 0 => f \in store
    /\ \A r \in inflight \cup done :
           r.kind = "image" /\ ~saver[r.obj.from].errorThrown /\ Exists(r.obj) \in context =>
               Exists(r.obj) \in store \/ Looping(r.obj.from)

\* The Savers NamedFilesExist speaks of.
Counts(k) == k = started \/ ~saver[k].errorThrown

\* An image that was written and whose object is still there has its file, and so
\* does every name.
Written ==
    /\ \A r \in done :
           Counts(r.obj.from) /\ Exists(r.obj) \in context => FileName(r.obj, r.image) \in files
    /\ \A f \in context :
           f.what \in Images /\ Counts(f.obj.from) => FileName(f.obj, f.what) \in files

FileInv == SavedFirst /\ (~DiskMayFail => Written)

\* A step that saves the context: whatever is known is saved.
LEMMA SavedBySave ==
    ASSUME SaverInv, SaverInv', SavedFirst, started \in Nat, started' \in Nat, started <= started',
           store' = context',
           \A f \in context' : f \in context \/ f.what \notin Images \/ f.obj.from \in 1..started
    PROVE  SavedFirst'
<1>1. \A f \in context' : f.what \in Images => f.obj.from \in 1..started'
    <2>1. 1..started \subseteq 1..started'
        OBVIOUS
    <2> QED
        BY <2>1 DEF SavedFirst
<1>2. \A f \in context' : Exists(f.obj) \in store'
    BY DEF SaverInv, Traceable, Grounded
<1> QED
    BY <1>1, <1>2 DEF SavedFirst, Exists, Fact

\* A step that saves nothing: it may only add objects of a loop that it starts,
\* or facts that are neither names nor organisations.
LEMMA SavedKept ==
    ASSUME SavedFirst, started' = started, store' = store,
           \A f \in context' : \/ f \in context
                               \/ /\ f.what \notin Images
                                  /\ f.what = "exists" => f.obj.kind # "organisation" \/ f.obj.from = 0
                               \/ f.obj.from \in 1..started /\ Exists(f.obj) \in store
                                  /\ f.what # "exists",
           \A r \in inflight' \cup done' : r.kind = "image" =>
               \/ r \in inflight \cup done
               \/ Looping(r.obj.from)',
           \A r \in inflight \cup done :
               r.kind = "image" /\ ~saver'[r.obj.from].errorThrown =>
                   /\ ~saver[r.obj.from].errorThrown
                   /\ Looping(r.obj.from) => Looping(r.obj.from)'
                   /\ Exists(r.obj) \in context' => Exists(r.obj) \in context \/ Looping(r.obj.from)'
    PROVE  SavedFirst'
<1>1. /\ \A f \in context' : f.what \in Images => f.obj.from \in 1..started' /\ Exists(f.obj) \in store'
      /\ \A f \in context' :
             f.what = "exists" /\ f.obj.kind = "organisation" /\ f.obj.from # 0 => f \in store'
    BY DEF SavedFirst, Images
<1>2. \A r \in inflight' \cup done' :
          r.kind = "image" /\ ~saver'[r.obj.from].errorThrown /\ Exists(r.obj) \in context' =>
              Exists(r.obj) \in store' \/ Looping(r.obj.from)'
    BY DEF SavedFirst
<1> QED
    BY <1>1, <1>2 DEF SavedFirst, Exists, Fact

\* A step that removes no file, and adds no object whose image was written before.
LEMMA WrittenKept ==
    ASSUME Written, started' = started, files \subseteq files',
           \A k \in 1..started : ~saver'[k].errorThrown => ~saver[k].errorThrown,
           \A r \in done : r.obj.from \in 1..started,
           \A f \in context : f.what \in Images => f.obj.from \in 1..started,
           \A r \in done' : \/ FileName(r.obj, r.image) \in files'
                            \/ r \in done /\ (Exists(r.obj) \in context' => Exists(r.obj) \in context),
           \A f \in context' : \/ f \in context \/ f.what \notin Images
                               \/ Counts(f.obj.from)' => FileName(f.obj, f.what) \in files'
    PROVE  Written'
<1>1. \A k \in 1..started : Counts(k)' => Counts(k)
    BY DEF Counts
<1> QED
    BY <1>1 DEF Written

LEMMA BystanderFiles ==
    ASSUME SaverInv, SaverInv', OrderInv, FileInv, Bystander
    PROVE  FileInv'
<1>1. /\ UNCHANGED <<saver, started, running, inflight, done, block, cleanup, files>>
      /\ context \subseteq context'
      /\ \A f \in context' : f \in context \/ (f.obj.from = 0 /\ f.what = "exists")
      /\ store' = store \/ store' = context'
    BY DEF Bystander
<1>2. \A r \in inflight \cup done : r.obj.from \in 1..started
    BY DEF SaverInv, Requested
<1>3. \A r \in inflight \cup done : Exists(r.obj) \in context' => Exists(r.obj) \in context
    <2>1. \A o : Exists(o).obj = o
        BY DEF Exists, Fact
    <2> QED
        BY <1>1, <1>2, <2>1
<1>4. "exists" \notin Images /\ started \in Nat
    BY DEF Images, SaverInv, TypeOK
<1>5. SavedFirst'
    <2>1. CASE store' = context'
        BY <1>1, <1>4, <2>1, SavedBySave DEF FileInv
    <2>2. CASE store' = store
        BY <1>1, <1>3, <1>4, <2>2, SavedKept DEF FileInv, Looping
    <2> QED
        BY <1>1, <2>1, <2>2
<1>6. ~DiskMayFail => Written'
    BY <1>1, <1>2, <1>3, <1>4, WrittenKept DEF FileInv, SavedFirst
<1> QED
    BY <1>5, <1>6 DEF FileInv

LEMMA BeginFiles ==
    ASSUME SaverInv, SaverInv', OrderInv, FileInv, Begin
    PROVE  FileInv'
<1>1. /\ context' \subseteq context /\ store' = context' /\ done' = done /\ started' = started + 1
      /\ files' = files \/ context' = {}
    BY DEF Begin, StartSaver, SaveContext, AfterDelete
<1>2. started \in Nat
    BY DEF SaverInv, TypeOK
<1>3. SavedFirst'
    BY <1>1, <1>2, SavedBySave DEF FileInv
<1>4. \A k \in 1..started : Counts(k)' => Counts(k)
    <2>1. \A k \in 1..started : saver'[k] = saver[k] /\ k # started'
        BY <1>1, <1>2 DEF Begin, StartSaver, SaverInv, TypeOK
    <2> QED
        BY <2>1 DEF Counts
<1>5. /\ \A r \in done : r.obj.from \in 1..started
      /\ \A f \in context : f.what \in Images => f.obj.from \in 1..started
    BY DEF SaverInv, Requested, FileInv, SavedFirst
<1>6. ~DiskMayFail => Written'
    BY <1>1, <1>4, <1>5 DEF FileInv, Written
<1> QED
    BY <1>3, <1>6 DEF FileInv

\* The directory is emptied while images of earlier Savers wait to be named: their
\* objects are in the store, and go.
LEMMA CleanUpFilesKept ==
    ASSUME SaverInv, SaverInv', OrderInv, FileInv, CleanUp
    PROVE  FileInv'
<1>1. /\ context' = AfterDelete(context, store) /\ store' = context' /\ block = NoBlock /\ cleanup
      /\ UNCHANGED <<saver, started, inflight, done>>
    BY DEF CleanUp, SaveContext, MainIdle, saverVars, netVars
<1>2. context' \subseteq context /\ \A f \in context' : Exists(f.obj) \notin store
    BY <1>1 DEF AfterDelete
<1>3. started \in Nat
    BY DEF SaverInv, TypeOK
<1>4. SavedFirst'
    BY <1>1, <1>2, <1>3, SavedBySave DEF FileInv
<1>5. \A f \in context' : f.what \notin Images
    BY <1>2 DEF FileInv, SavedFirst
<1>6. \A r \in done : r.obj.from \in 1..started /\ r.kind = "image"
    BY DEF SaverInv, Requested, OrderInv, Single
<1>7. started \in 1..started => \A r \in done : r.obj.from # started
    BY <1>1, <1>6 DEF OrderInv, Staged, BeforeProject
<1>8. \A o : Exists(o).obj = o
    BY DEF Exists, Fact
<1>9. ASSUME NEW r \in done, Counts(r.obj.from) PROVE Exists(r.obj) \notin context'
    <2>1. r.obj.from # started /\ ~saver[r.obj.from].errorThrown
        BY <1>6, <1>7, <1>9 DEF Counts
    <2>2. Exists(r.obj) \in context => Exists(r.obj) \in store
        BY <1>1, <1>6, <2>1 DEF FileInv, SavedFirst, Looping
    <2> QED
        BY <1>2, <1>8, <2>2
<1>10. Written'
    <2>1. \A k : Counts(k)' <=> Counts(k)
        BY <1>1 DEF Counts
    <2> QED
        BY <1>1, <1>5, <1>9, <2>1 DEF Written
<1> QED
    BY <1>4, <1>10 DEF FileInv

LEMMA EndsFiles ==
    ASSUME SaverInv, SaverInv', OrderInv, FileInv, Ends
    PROVE  FileInv'
<1>1. /\ context' = store /\ store' = store /\ inflight' = {} /\ done' = {}
      /\ UNCHANGED <<saver, started, files>> /\ store \subseteq context /\ started \in Nat
    BY DEF Ends, SaverInv, Traceable, TypeOK
<1>2. SavedFirst'
    BY <1>1, SavedBySave DEF FileInv
<1>3. ~DiskMayFail => Written'
    BY <1>1 DEF FileInv, Written, Counts
<1> QED
    BY <1>2, <1>3 DEF FileInv

LEMMA FailingFiles ==
    ASSUME SaverInv, SaverInv', OrderInv, FileInv, NEW k \in 1..started, Failing(k)
    PROVE  FileInv'
<1>1. /\ UNCHANGED <<started, done, block, context, store>> /\ inflight' \subseteq inflight
      /\ \A j \in 1..started : ~saver'[j].errorThrown => ~saver[j].errorThrown
      /\ files' = files \/ DiskMayFail
    BY DEF Failing
<1>2. \A r \in inflight \cup done : r.obj.from \in 1..started
    BY DEF SaverInv, Requested
<1>3. SavedFirst'
    BY <1>1, <1>2, SavedKept DEF FileInv, Looping
<1>4. ~DiskMayFail => Written'
    BY <1>1, <1>2, WrittenKept DEF FileInv, SavedFirst
<1> QED
    BY <1>3, <1>4 DEF FileInv

LEMMA ProjectFiles ==
    ASSUME SaverInv, SaverInv', OrderInv, FileInv, NEW k \in 1..started, ProjectArrives(k)
    PROVE  FileInv'
<1> DEFINE o == ProjectObject(k)
<1>1. /\ context' = context \cup Insert({o})
      /\ \A r \in inflight' : r.kind = "image" => r \in inflight
      /\ UNCHANGED <<saver, started, done, block, store, files>>
    BY DEF ProjectArrives, Ask, Request
<1>2. \A f \in Insert({o}) : f = Exists(o) /\ f.what = "exists" /\ f.obj.kind = "project"
    BY DEF Insert, Exists, Fact, ProjectObject, Object
<1>3. \A r \in inflight \cup done : r.obj.from \in 1..started /\ (r.kind = "image" => r.obj.kind # "project")
    BY DEF SaverInv, Requested, OrderInv, Single
<1>4. \A r \in inflight \cup done : r.kind = "image" => (Exists(r.obj) \in context' => Exists(r.obj) \in context)
    <2>1. \A x : Exists(x).obj = x
        BY DEF Exists, Fact
    <2> QED
        BY <1>1, <1>2, <1>3, <2>1
<1>5. "exists" \notin Images
    BY DEF Images
<1> HIDE DEF o
<1>6. SavedFirst'
    BY <1>1, <1>2, <1>4, <1>5, SavedKept DEF FileInv, Looping
<1>7. ~DiskMayFail => Written'
    BY <1>1, <1>2, <1>3, <1>4, <1>5, WrittenKept DEF FileInv, SavedFirst, OrderInv, Single
<1> QED
    BY <1>6, <1>7 DEF FileInv

LEMMA ListFiles ==
    ASSUME SaverInv, SaverInv', OrderInv, FileInv, NEW k \in 1..started,
           NEW kind \in {"coins", "locations"}, ListArrives(kind, k)
    PROVE  FileInv'
<1>1. PICK r \in Answered(kind, k), objects \in SUBSET ListObjects(kind, k) :
        /\ block = NoBlock
        /\ inflight' = inflight \ {r}
        /\ context' = context \cup Insert(objects)
        /\ block' = [kind |-> kind, from |-> k, rest |-> objects]
        /\ UNCHANGED <<saver, started, done, store, files>>
    BY DEF ListArrives, MayReply, MainIdle
<1>2. r \in inflight /\ r.kind = kind /\ r.obj.from = k
    BY DEF Answered
<1>3. \A o \in objects : o \in Objects /\ o.from = k /\ o.kind = Yields(kind) /\ o.kind # "organisation"
    <2>1. \A o \in objects : o.kind = Yields(kind)
        BY ListYields
    <2>2. Yields(kind) # "organisation"
        BY DEF Yields
    <2> QED
        BY <2>1, <2>2, ListType DEF SaverInv
<1>4. \A f \in Insert(objects) : f.what = "exists" /\ f.obj \in objects
    BY DEF Insert, Exists, Fact
<1>5. Looping(k)'
    <2>1. block'.kind # NoBlock.kind
        BY <1>1 DEF NoBlock
    <2> QED
        BY <1>1, <2>1 DEF Looping
<1>6. \A q \in inflight \cup done : q.obj.from \in 1..started
    BY DEF SaverInv, Requested
<1>7. \A x : Exists(x).obj = x
    BY DEF Exists, Fact
<1>8. \A q \in inflight \cup done : Exists(q.obj) \in context' => Exists(q.obj) \in context \/ q.obj.from = k
    BY <1>1, <1>3, <1>4, <1>7
<1>9. \A q \in done : Exists(q.obj) \in context' => Exists(q.obj) \in context
    <2>1. \A q \in done : q.obj.from = k => q.obj.kind # Yields(kind)
        BY <1>2 DEF OrderInv, Single, Staged, BeforeList, Awaits
    <2> QED
        BY <1>1, <1>3, <1>4, <1>7, <2>1
<1>10. "exists" \notin Images
    BY DEF Images
<1>11. SavedFirst'
    BY <1>1, <1>3, <1>4, <1>5, <1>8, <1>10, SavedKept DEF FileInv, Looping
<1>12. ~DiskMayFail => Written'
    BY <1>1, <1>4, <1>6, <1>9, <1>10, WrittenKept DEF FileInv, SavedFirst
<1> QED
    BY <1>11, <1>12 DEF FileInv

LEMMA QuizFiles ==
    ASSUME SaverInv, SaverInv', OrderInv, FileInv, NEW k \in 1..started, QuizArrives(k)
    PROVE  FileInv'
<1>1. PICK r \in inflight :
        LET quiz == QuizObject(r.obj) IN
        /\ inflight' = inflight \ {r}
        /\ context \subseteq context' /\ store' = context'
        /\ \A f \in context' : f \in context \/ (f.obj = quiz /\ f.what \in {"exists", "linked"})
        /\ UNCHANGED <<saver, started, done, block, files>>
    BY QuizArrivesEffect
<1>2. QuizObject(r.obj).kind = "task"
    BY DEF QuizObject, Object
<1>3. \A q \in done : q.obj.from \in 1..started /\ q.obj.kind # "task"
    BY DEF SaverInv, Requested, OrderInv, Single
<1>4. \A q \in done : Exists(q.obj) \in context' => Exists(q.obj) \in context
    <2>1. \A x : Exists(x).obj = x
        BY DEF Exists, Fact
    <2> QED
        BY <1>1, <1>2, <1>3, <2>1
<1>5. \A f \in context' : f \in context \/ f.what \notin Images
    BY <1>1 DEF Images
<1>6. SavedFirst'
    BY <1>1, <1>5, SavedBySave DEF FileInv, SaverInv, TypeOK
<1>7. ~DiskMayFail => Written'
    BY <1>1, <1>3, <1>4, <1>5, WrittenKept DEF FileInv, SavedFirst
<1> QED
    BY <1>6, <1>7 DEF FileInv

LEMMA OrganisationFiles ==
    ASSUME SaverInv, SaverInv', OrderInv, FileInv, NEW k \in 1..started, OrganisationArrives(k)
    PROVE  FileInv'
<1> DEFINE o == OrganisationObject(k)
           ctx == context \cup Insert({o})
<1>1. PICK r \in Answered("organisation", k) :
        /\ SaveContext(IF Exists(ProjectObject(k)) \in ctx THEN ctx \cup Set(o, "linked", ctx) ELSE ctx)
        /\ UNCHANGED <<saver, started, done, block, files>>
    BY DEF OrganisationArrives
<1>2. r \in inflight /\ r.kind = "organisation" /\ r.obj.from = k
    BY DEF Answered
<1>3. o.from = k /\ o.kind = "organisation"
    BY DEF OrganisationObject, Object
<1>4. /\ context \subseteq context' /\ store' = context'
      /\ \A f \in context' : f \in context \/ (f.obj = o /\ f.what \notin Images)
    <2>1. \A f \in Insert({o}) \cup Set(o, "linked", ctx) : f.obj = o /\ f.what \notin Images
        BY DEF Insert, Set, Exists, Fact, Images
    <2> QED
        BY <1>1, <2>1 DEF SaveContext
<1> HIDE DEF o, ctx
<1>5. \A q \in done : /\ q.obj.from \in 1..started
                      /\ q.obj.from = k => q.obj.kind # "organisation"
    BY <1>2 DEF SaverInv, Requested, OrderInv, Single, Staged, BeforeList, Awaits, Yields
<1>6. \A q \in done : Exists(q.obj) \in context' => Exists(q.obj) \in context
    <2>1. \A x : Exists(x).obj = x
        BY DEF Exists, Fact
    <2> QED
        BY <1>3, <1>4, <1>5, <2>1
<1>7. SavedFirst'
    BY <1>1, <1>4, SavedBySave DEF FileInv, SaverInv, TypeOK
<1>8. ~DiskMayFail => Written'
    BY <1>1, <1>4, <1>5, <1>6, WrittenKept DEF FileInv, SavedFirst
<1> QED
    BY <1>7, <1>8 DEF FileInv

LEMMA BlankFiles ==
    ASSUME SaverInv, SaverInv', OrderInv, FileInv, NEW k \in 1..started, Blank(k)
    PROVE  FileInv'
<1>1. /\ UNCHANGED <<saver, started, done, block, context, files>>
      /\ inflight' \subseteq inflight
      /\ store' = store \/ store' = context'
    BY DEF Blank
<1>2. \A q \in inflight \cup done : q.obj.from \in 1..started
    BY DEF SaverInv, Requested
<1>3. SavedFirst'
    <2>1. CASE store' = context'
        BY <1>1, <2>1, SavedBySave DEF FileInv, SaverInv, TypeOK
    <2>2. CASE store' = store
        BY <1>1, <2>2, SavedKept DEF FileInv, Looping
    <2> QED
        BY <1>1, <2>1, <2>2
<1>4. ~DiskMayFail => Written'
    BY <1>1, <1>2, WrittenKept DEF FileInv, SavedFirst
<1> QED
    BY <1>3, <1>4 DEF FileInv

LEMMA TurnFiles ==
    ASSUME SaverInv, SaverInv', OrderInv, FileInv, block # NoBlock, NEW o \in block.rest, NEW asked,
           Turn(o, asked)
    PROVE  FileInv'
<1>1. /\ o.from = block.from /\ block'.from = block.from /\ block' # NoBlock
      /\ context \subseteq context'
      /\ \A f \in context' : f \in context \/ f = Fact(o, "linked")
      /\ \A r \in inflight' : r \in inflight \/ r.obj = o
    BY TurnType
<1>2. UNCHANGED <<saver, started, done, store, files>>
    BY DEF Turn
<1>3. /\ Fact(o, "linked").what = "linked" /\ "linked" \notin Images
      /\ \A x : Exists(x) # Fact(o, "linked")
    BY DEF Exists, Fact, Images
<1>4. \A x : Exists(x) \in context' => Exists(x) \in context
    BY <1>1, <1>3
<1>5. \A j : Looping(j)' <=> Looping(j)
    BY <1>1 DEF Looping
<1>6. Looping(o.from)'
    BY <1>1 DEF Looping
<1>7. SavedFirst'
    BY <1>1, <1>2, <1>3, <1>4, <1>5, <1>6, SavedKept DEF FileInv
<1>8. \A q \in done : q.obj.from \in 1..started
    BY DEF SaverInv, Requested
<1>9. ~DiskMayFail => Written'
    BY <1>1, <1>2, <1>3, <1>4, <1>8, WrittenKept DEF FileInv, SavedFirst
<1> QED
    BY <1>7, <1>9 DEF FileInv

LEMMA LoopEndFiles ==
    ASSUME SaverInv, SaverInv', OrderInv, FileInv, LoopReturn \/ LoopEnd
    PROVE  FileInv'
<1>1. /\ UNCHANGED <<saver, started, inflight, done, context, files>>
      /\ block' = NoBlock
      /\ \/ store' = context'
         \/ store' = store /\ block # NoBlock /\ saver[block.from].errorThrown
    BY DEF LoopReturn, LoopEnd, SaveContext, saverVars, netVars, dataVars
<1>2. \A q \in inflight \cup done : q.obj.from \in 1..started
    BY DEF SaverInv, Requested
<1>3. SavedFirst'
    <2>1. CASE store' = context'
        BY <1>1, <2>1, SavedBySave DEF FileInv, SaverInv, TypeOK
    <2>2. CASE store' = store /\ block # NoBlock /\ saver[block.from].errorThrown
        BY <1>1, <2>2, SavedKept DEF FileInv, Looping
    <2> QED
        BY <1>1, <2>1, <2>2
<1>4. ~DiskMayFail => Written'
    BY <1>1, <1>2, WrittenKept DEF FileInv, SavedFirst
<1> QED
    BY <1>3, <1>4 DEF FileInv

LEMMA ImageArrivesFiles ==
    ASSUME SaverInv, SaverInv', OrderInv, FileInv, ImageArrives
    PROVE  FileInv'
<1>1. PICK r \in inflight :
        /\ r.kind = "image" /\ inflight' = inflight \ {r} /\ done' = done \cup {r}
        /\ files' = files \cup {FileName(r.obj, r.image)}
        /\ UNCHANGED <<saver, started, block, context, store>>
    BY DEF ImageArrives, saverVars
<1>2. SavedFirst'
    BY <1>1, SavedKept DEF FileInv, Looping
<1>3. \A q \in done : q.obj.from \in 1..started
    BY DEF SaverInv, Requested
<1>4. ~DiskMayFail => Written'
    BY <1>1, <1>3, WrittenKept DEF FileInv, SavedFirst
<1> QED
    BY <1>2, <1>4 DEF FileInv

LEMMA ImageDoneFiles ==
    ASSUME SaverInv, SaverInv', OrderInv, FileInv, ImageDone
    PROVE  FileInv'
<1>1. PICK r \in done :
        /\ r.obj \in Objects /\ r.image \in Images /\ r.obj.from \in 1..started
        /\ MainIdle /\ done' = done \ {r}
        /\ context' = context \cup Set(r.obj, r.image, context)
        /\ store' = context' \/ (store' = store /\ r.obj.kind = "organisation")
        /\ UNCHANGED <<saver, started, inflight, block, files>>
    BY ImageDoneEffect
<1>2. \A f \in context' : f \in context \/
          (f.obj = r.obj /\ f.what = r.image /\ Exists(r.obj) \in context)
    BY <1>1 DEF Set, Fact
<1>3. \A x : Exists(x).what = "exists" /\ Exists(x).obj = x
    BY DEF Exists, Fact
<1>4. "exists" \notin Images
    BY DEF Images
<1>5. \A x : Exists(x) \in context' => Exists(x) \in context
    BY <1>1, <1>2, <1>3, <1>4
<1>6. SavedFirst'
    <2>1. CASE store' = context'
        BY <1>1, <1>2, <2>1, SavedBySave DEF FileInv, SaverInv, TypeOK
    <2>2. CASE store' = store /\ r.obj.kind = "organisation"
        <3>1. Exists(r.obj) \in context => Exists(r.obj) \in store
            BY <1>1, <1>3, <2>2 DEF FileInv, SavedFirst
        <3> QED
            BY <1>1, <1>2, <1>4, <1>5, <2>2, <3>1, SavedKept DEF FileInv, Looping
    <2> QED
        BY <1>1, <2>1, <2>2
<1>7. \A q \in done : q.obj.from \in 1..started
    BY DEF SaverInv, Requested
<1>8. ASSUME ~DiskMayFail PROVE Written'
    <2>1. Written
        BY <1>8 DEF FileInv
    <2>2. Counts(r.obj.from)' => Counts(r.obj.from)
        BY <1>1 DEF Counts
    <2>3. \A f \in context' : f \in context \/ (Counts(f.obj.from)' => FileName(f.obj, f.what) \in files')
        BY <1>1, <1>2, <2>1, <2>2 DEF Written
    <2> QED
        BY <1>1, <1>5, <1>7, <2>1, <2>3, WrittenKept DEF FileInv, SavedFirst
<1> QED
    BY <1>6, <1>8 DEF FileInv

LEMMA FileStep ==
    SaverInv /\ OrderInv /\ FileInv /\ [Next]_vars => FileInv'
<1> SUFFICES ASSUME SaverInv, OrderInv, FileInv, [Next]_vars PROVE FileInv'
    OBVIOUS
<1>1. SaverInv'
    BY SaverInvStep
<1>2. CASE LoopTurn
    <2>1. block # NoBlock
        BY <1>2 DEF LoopTurn
    <2> QED
        BY <1>1, <1>2, <2>1, TurnEffect, TurnFiles, EndsFiles
<1> QED
    BY <1>1, <1>2, StepKinds, BystanderFiles, BeginFiles, CleanUpFilesKept, EndsFiles, FailingFiles,
       ProjectFiles, ListFiles, QuizFiles, OrganisationFiles, BlankFiles, LoopEndFiles,
       ImageArrivesFiles, ImageDoneFiles

LEMMA FileInit == Init => FileInv
BY DEF Init, FileInv, SavedFirst, Written

LEMMA NamesHaveFiles == SaverInv /\ FileInv => (~DiskMayFail => NamedFilesExist)
BY DEF SaverInv, Traceable, FileInv, Written, Counts, NamedFilesExist

\* The replies of every Saver come in the order its requests allow, whatever other
\* Savers and the clean-up do in between: nothing of a Saver exists before its
\* project has come, no image before the reply that brings its object, the
\* clean-up waits only while the project does, and no error is thrown or handled
\* for a Saver that is not marked as failed.
THEOREM DownloadOrder == Spec => []OrderInv
BY DownloadInvariant, OrderInit, OrderStep, PTL DEF Spec

LEMMA PromisesHold == Spec => []PromiseInv
BY DownloadInvariant, DownloadOrder, PromiseInit, PromiseStep, PTL DEF Spec

\* A download whose last reply was handled and none of whose requests failed has
\* left in the context all of the project that its replies did not leave out, and in
\* the store all of that but the organisation's file name, for any order of replies,
\* turns and completions: the Saver loses nothing it was given.
THEOREM QuietDownloadIsComplete == Spec => []QuietMeansComplete
BY PromisesHold, DownloadInvariant, DownloadOrder, QuietComplete, PTL

\* Unless moving a file into place fails, every file name recorded for the latest
\* Saver, or for one that threw no error, names a file of the documents directory,
\* although the two are written by two threads and a retry deletes the files in
\* between.
THEOREM NamesOfFiles == Spec => [](~DiskMayFail => NamedFilesExist)
<1>1. Spec => []FileInv
    BY DownloadInvariant, DownloadOrder, FileInit, FileStep, PTL DEF Spec
<1> QED
    BY <1>1, DownloadInvariant, NamesHaveFiles, PTL

-----------------------------------------------------------------------------
(* A Saver adds only what its project has *)

Parts(k) == {OrganisationObject(k)} \cup CoinObjects(k) \cup LocationObjects(k)

\* Images, quizzes and loops are of objects of the Saver's project, and so is
\* every fact that does not come from the project list.
Own ==
    /\ \A r \in inflight \cup done :
           r.kind = "image" => r.obj \in Parts(r.obj.from) /\ r.image \in ImagesOf(r.obj)
    /\ \A r \in inflight : r.kind = "quiz" => r.obj \in LocationObjects(r.obj.from)
    /\ \A k \in 1..started : \A kind \in {"coins", "locations"} :
           Looping(k) /\ block.kind = kind => block.rest \subseteq ListObjects(kind, k)
    /\ \A f \in context : f.obj.from # 0 => f \in Complete(f.obj.from)

\* Once the application has ended nothing is left of a download but what it saved.
Ended ==
    ~running =>
        /\ inflight = {} /\ done = {} /\ block = NoBlock /\ ~cleanup
        /\ \A f \in context : f.obj.from # 0 => f \in store

OwnInv == Own /\ Ended

LEMMA CompleteHas ==
    ASSUME NEW k
    PROVE  /\ Exists(ProjectObject(k)) \in Complete(k)
           /\ \A o \in Parts(k) : /\ Exists(o) \in Complete(k) /\ Fact(o, "linked") \in Complete(k)
                                  /\ \A i \in ImagesOf(o) : Fact(o, i) \in Complete(k)
           /\ \A l \in LocationObjects(k) : /\ Exists(QuizObject(l)) \in Complete(k)
                                            /\ Fact(QuizObject(l), "linked") \in Complete(k)
<1> DEFINE quizzes == {QuizObject(l) : l \in LocationObjects(k)}
<1>1. Complete(k) = Insert({ProjectObject(k)} \cup Parts(k) \cup quizzes)
                        \cup {Fact(x, "linked") : x \in Parts(k) \cup quizzes}
                        \cup (UNION {{Fact(x, i) : i \in ImagesOf(x)} : x \in Parts(k)})
    BY DEF Complete, Parts
<1>2. \A l \in LocationObjects(k) : QuizObject(l) \in quizzes
    OBVIOUS
<1> HIDE DEF quizzes
<1>3. /\ Exists(ProjectObject(k)) \in Complete(k)
      /\ \A o \in Parts(k) \cup quizzes : Exists(o) \in Complete(k) /\ Fact(o, "linked") \in Complete(k)
    BY <1>1 DEF Insert
<1>4. \A o \in Parts(k) : \A i \in ImagesOf(o) : Fact(o, i) \in Complete(k)
    BY <1>1
<1> QED
    BY <1>2, <1>3, <1>4

LEMMA SameContents ==
    ASSUME NEW k, saver'[k].project = saver[k].project
    PROVE  /\ Complete(k)' = Complete(k) /\ Unsaved(k)' = Unsaved(k) /\ Parts(k)' = Parts(k)
           /\ LocationObjects(k)' = LocationObjects(k) /\ \A kind : ListObjects(kind, k)' = ListObjects(kind, k)
BY SameObjects DEF Complete, Unsaved, Parts, ListObjects

LEMMA PartsOf ==
    ASSUME SaverInv, NEW k \in 1..started
    PROVE  \A o \in Parts(k) : o \in Objects /\ o.from = k
BY ObjectsOf DEF SaverInv, Parts

\* What a step may add: requests, loops and facts of the projects of the Savers.
LEMMA OwnKept ==
    ASSUME SaverInv, OrderInv, Own,
           \A k \in 1..started : saver'[k].project = saver[k].project,
           \A r \in inflight' \cup done' : r.kind = "image" =>
               \/ r \in inflight \cup done
               \/ /\ r.obj.from \in 1..started
                  /\ r.obj \in Parts(r.obj.from) /\ r.image \in ImagesOf(r.obj),
           \A r \in inflight' : r.kind = "quiz" =>
               \/ r \in inflight
               \/ r.obj.from \in 1..started /\ r.obj \in LocationObjects(r.obj.from),
           \/ block' = NoBlock \/ block' = block
           \/ \E k \in 1..started : \E kind \in {"coins", "locations"} :
                  block'.from = k /\ block'.kind = kind /\ block'.rest \subseteq ListObjects(kind, k),
           started' = started,
           \A f \in context' : \/ f \in context
                               \/ f.obj.from = 0
                               \/ f.obj.from \in 1..started /\ f \in Complete(f.obj.from)
    PROVE  Own'
<1>1. \A k \in 1..started :
          /\ Complete(k)' = Complete(k) /\ Parts(k)' = Parts(k)
          /\ LocationObjects(k)' = LocationObjects(k) /\ \A kind : ListObjects(kind, k)' = ListObjects(kind, k)
    BY SameContents
<1>2. \A r \in inflight \cup done : r.obj.from \in 1..started
    BY DEF SaverInv, Requested
<1>3. \A r \in inflight' \cup done' :
          r.kind = "image" => r.obj \in Parts(r.obj.from)' /\ r.image \in ImagesOf(r.obj)
    BY <1>1, <1>2 DEF Own
<1>4. \A r \in inflight' : r.kind = "quiz" => r.obj \in LocationObjects(r.obj.from)'
    BY <1>1, <1>2 DEF Own
<1>5. ASSUME NEW k \in 1..started, NEW kind \in {"coins", "locations"},
             Looping(k)', block'.kind = kind
      PROVE  block'.rest \subseteq ListObjects(kind, k)'
    <2>1. ListObjects(kind, k)' = ListObjects(kind, k)
        BY <1>1
    <2>2. CASE block' = block
        BY <1>5, <2>1, <2>2 DEF Own, Looping
    <2>3. CASE block' # block
        BY <1>5, <2>1, <2>3 DEF Looping
    <2> QED
        BY <2>2, <2>3
<1>6. \A f \in context' : f.obj.from # 0 => f \in Complete(f.obj.from)'
    <2>1. \A f \in context : f.obj.from # 0 => f.obj.from \in 1..started
        BY DEF OrderInv, Staged, SaverInv, TypeOK
    <2> QED
        BY <1>1, <2>1 DEF Own
<1> QED
    BY <1>3, <1>4, <1>5, <1>6 DEF Own

LEMMA BeginOwn ==
    ASSUME SaverInv, OrderInv, Own, Begin
    PROVE  Own' /\ Ended'
<1>1. PICK p \in Projects, ctx \in SUBSET context, rows \in SUBSET context :
        /\ MainIdle /\ StartSaver(p, ctx, rows)
        /\ UNCHANGED <<done, block>>
    BY DEF Begin
<1>0. PICK k : k = started + 1
    OBVIOUS
<1> DEFINE q == Ask("project", Object("project", p, k))
<1>2. /\ started' = k /\ inflight' = inflight \cup {q} /\ context' \subseteq context
      /\ done' = done /\ block' = NoBlock /\ running' = TRUE
    BY <1>0, <1>1 DEF StartSaver, SaveContext, AfterDelete, MainIdle
<1>3. q.kind = "project"
    BY DEF Ask, Request
<1>4. started \in Nat /\ k \notin 1..started /\ 1..started \subseteq Savers
    BY <1>0, SaverAssumption DEF SaverInv, TypeOK, Savers
<1>5. \A j \in 1..started : saver'[j].project = saver[j].project
    BY <1>0, <1>1, <1>4 DEF StartSaver, SaverInv, TypeOK
<1>6. \A j \in 1..started :
          /\ Complete(j)' = Complete(j) /\ Parts(j)' = Parts(j)
          /\ LocationObjects(j)' = LocationObjects(j)
    BY <1>5, SameContents
<1>7. \A r \in inflight \cup done : r.obj.from \in 1..started
    BY DEF SaverInv, Requested
<1>8. \A f \in context : f.obj.from # 0 => f.obj.from \in 1..started
    BY <1>4 DEF OrderInv, Staged
<1> HIDE DEF q
<1>9. \A r \in inflight' \cup done' :
          r.kind = "image" => r.obj \in Parts(r.obj.from)' /\ r.image \in ImagesOf(r.obj)
    BY <1>2, <1>3, <1>6, <1>7 DEF Own
<1>10. \A r \in inflight' : r.kind = "quiz" => r.obj \in LocationObjects(r.obj.from)'
    BY <1>2, <1>3, <1>6, <1>7 DEF Own
<1>11. \A j : ~Looping(j)'
    BY <1>2 DEF Looping
<1>12. \A f \in context' : f.obj.from # 0 => f \in Complete(f.obj.from)'
    BY <1>2, <1>6, <1>8 DEF Own
<1>13. Ended'
    BY <1>2 DEF Ended
<1> QED
    BY <1>9, <1>10, <1>11, <1>12, <1>13 DEF Own

LEMMA ProjectArrivesOwn ==
    ASSUME SaverInv, OrderInv, Own, NEW k \in 1..started, ProjectArrives(k)
    PROVE  Own'
<1> DEFINE o == ProjectObject(k)
           new == {Ask("coins", o), Ask("organisation", o), Ask("locations", o)}
<1>1. PICK r \in inflight :
        /\ context' = context \cup Insert({o})
        /\ inflight' \subseteq inflight \cup new
        /\ UNCHANGED <<saver, started, done, block>>
    BY DEF ProjectArrives, Answered
<1>2. \A q \in new : q.kind \in {"coins", "organisation", "locations"}
    BY DEF Ask, Request
<1>3. \A f \in Insert({o}) : f.obj.from \in 1..started /\ f \in Complete(f.obj.from)
    <2>1. o \in Objects /\ o.from = k /\ Exists(o) \in Complete(k)
        BY ObjectsOf, CompleteHas DEF SaverInv
    <2> HIDE DEF o
    <2>2. \A f \in Insert({o}) : f = Exists(o) /\ f.obj = o
        BY <2>1, InsertType
    <2> QED
        BY <2>1, <2>2
<1> HIDE DEF o, new
<1> QED
    BY <1>1, <1>2, <1>3, OwnKept

LEMMA ListArrivesOwn ==
    ASSUME SaverInv, OrderInv, Own, NEW k \in 1..started, NEW kind \in {"coins", "locations"},
           ListArrives(kind, k)
    PROVE  Own'
<1>1. PICK objects \in SUBSET ListObjects(kind, k) :
        /\ inflight' \subseteq inflight
        /\ context' = context \cup Insert(objects)
        /\ block' = [kind |-> kind, from |-> k, rest |-> objects]
        /\ UNCHANGED <<saver, started, done>>
    BY DEF ListArrives
<1>2. objects \subseteq Parts(k)
    BY DEF ListObjects, Parts
<1>3. block'.from = k /\ block'.kind = kind /\ block'.rest \subseteq ListObjects(kind, k)
    BY <1>1
<1>4. \A f \in Insert(objects) : f.obj.from \in 1..started /\ f \in Complete(f.obj.from)
    <2>1. \A o \in objects : o \in Objects /\ o.from = k /\ Exists(o) \in Complete(k)
        BY <1>2, PartsOf, CompleteHas
    <2>2. \A f \in Insert(objects) : f.obj \in objects /\ f = Exists(f.obj)
        BY <2>1, InsertType
    <2> QED
        BY <2>1, <2>2
<1> QED
    BY <1>1, <1>3, <1>4, OwnKept

\* A fact that exists, or that says an object is linked, is known by its object.
LEMMA FactOf ==
    ASSUME NEW f \in Facts
    PROVE  f = Fact(f.obj, f.what)
BY DEF Facts, Fact

LEMMA QuizArrivesOwn ==
    ASSUME SaverInv, OrderInv, Own, TypeOK', NEW k \in 1..started, QuizArrives(k)
    PROVE  Own'
<1>1. PICK r \in inflight :
        /\ r.kind = "quiz" /\ r.obj \in Objects /\ r.obj.from = k
        /\ inflight' = inflight \ {r}
        /\ \A f \in context' : f \in context \/
               (f.obj = QuizObject(r.obj) /\ f.what \in {"exists", "linked"})
        /\ UNCHANGED <<saver, started, running, done, block, background, cleanup, files>>
    BY QuizArrivesEffect
<1> DEFINE quiz == QuizObject(r.obj)
<1>2. r.obj \in LocationObjects(k)
    BY <1>1 DEF Own
<1>3. quiz.from = k
    BY <1>1, QuizObjectType
<1>4. Fact(quiz, "exists") \in Complete(k) /\ Fact(quiz, "linked") \in Complete(k)
    BY <1>2, CompleteHas DEF Exists
<1>5. \A f \in context' : f = Fact(f.obj, f.what)
    BY FactOf DEF TypeOK
<1> HIDE DEF quiz
<1>6. \A f \in context' : f \in context \/ (f.obj.from \in 1..started /\ f \in Complete(f.obj.from))
    <2>1. \A f \in context' : f \in context \/ (f.obj = quiz /\ f.what \in {"exists", "linked"})
        BY <1>1 DEF quiz
    <2> QED
        BY <1>3, <1>4, <1>5, <2>1
<1> QED
    BY <1>1, <1>6, OwnKept

LEMMA OrganisationArrivesOwn ==
    ASSUME SaverInv, OrderInv, Own, NEW k \in 1..started, OrganisationArrives(k)
    PROVE  Own'
<1> DEFINE o == OrganisationObject(k)
           ctx == context \cup Insert({o})
<1>1. /\ inflight' \subseteq inflight \cup ImageRequests(o)
      /\ context' \subseteq ctx \cup Set(o, "linked", ctx)
      /\ UNCHANGED <<saver, started, done, block>>
    BY DEF OrganisationArrives, SaveContext
<1>2. o \in Parts(k) /\ o \in Objects /\ o.from = k
    BY PartsOf DEF Parts
<1>3. Exists(o) \in Complete(k) /\ Fact(o, "linked") \in Complete(k)
    BY <1>2, CompleteHas
<1> HIDE DEF o
<1>4. \A f \in Insert({o}) \cup Set(o, "linked", ctx) :
          f \in {Exists(o), Fact(o, "linked")} /\ f.obj = o
    BY DEF Insert, Set, Exists, Fact
<1>5. \A q \in ImageRequests(o) : q.obj = o /\ q.kind = "image" /\ q.image \in ImagesOf(o)
    BY DEF ImageRequests, Request
<1>6. \A f \in context' : f \in context \/ f \in Insert({o}) \cup Set(o, "linked", ctx)
    BY <1>1
<1> HIDE DEF ctx
<1>7. \A f \in context' : f \in context \/ (f.obj.from \in 1..started /\ f \in Complete(f.obj.from))
    BY <1>2, <1>3, <1>4, <1>6
<1> QED
    BY <1>1, <1>2, <1>5, <1>7, OwnKept

LEMMA TurnOwn ==
    ASSUME SaverInv, OrderInv, Own, block # NoBlock, NEW o \in block.rest, NEW asked, Turn(o, asked)
    PROVE  Own'
<1>0. PICK k : k = block.from
    OBVIOUS
<1>1. /\ k \in 1..started /\ o \in Objects /\ o.from = k /\ o.kind = Yields(block.kind)
      /\ block'.from = k /\ block'.kind = block.kind /\ block'.rest \subseteq block.rest
      /\ block.kind \in {"coins", "locations"}
      /\ \A f \in context' : f \in context \/ (f = Fact(o, "linked") /\ f.obj = o)
    BY <1>0, TurnType DEF SaverInv, TypeOK
<1>2. block.rest \subseteq ListObjects(block.kind, k)
    BY <1>0, <1>1 DEF Own, Looping
<1>3. /\ o \in Parts(k)
      /\ o.kind = "location" => o \in LocationObjects(k)
    BY <1>1, <1>2 DEF ListObjects, Parts, Yields
<1>4. Fact(o, "linked") \in Complete(k)
    BY <1>3, CompleteHas
<1>5. /\ \A q \in ImageRequests(o) : q.obj = o /\ q.kind = "image" /\ q.image \in ImagesOf(o)
      /\ Ask("quiz", o).kind = "quiz" /\ Ask("quiz", o).obj = o
    BY DEF ImageRequests, Ask, Request
<1>6. /\ \A q \in inflight' : q \in inflight \/ q \in ImageRequests(o)
                                  \/ (q = Ask("quiz", o) /\ o.kind = "location")
      /\ UNCHANGED <<saver, started, done>>
    BY DEF Turn
<1>7. \A f \in context' : f \in context \/ (f.obj.from \in 1..started /\ f \in Complete(f.obj.from))
    BY <1>1, <1>4
<1>8. /\ \A q \in inflight' \cup done' : q.kind = "image" =>
            \/ q \in inflight \cup done
            \/ /\ q.obj.from \in 1..started
               /\ q.obj \in Parts(q.obj.from) /\ q.image \in ImagesOf(q.obj)
      /\ \A q \in inflight' : q.kind = "quiz" =>
            \/ q \in inflight
            \/ q.obj.from \in 1..started /\ q.obj \in LocationObjects(q.obj.from)
    BY <1>1, <1>3, <1>5, <1>6
<1>9. \E j \in 1..started : \E kind \in {"coins", "locations"} :
          block'.from = j /\ block'.kind = kind /\ block'.rest \subseteq ListObjects(kind, j)
    BY <1>1, <1>2
<1> QED
    BY <1>6, <1>7, <1>8, <1>9, OwnKept

LEMMA ImageDoneOwn ==
    ASSUME SaverInv, OrderInv, Own, ImageDone
    PROVE  Own'
<1>1. PICK r \in done :
        /\ r.obj.from \in 1..started /\ done' = done \ {r}
        /\ context' = context \cup Set(r.obj, r.image, context)
        /\ UNCHANGED <<saver, started, inflight, block>>
    BY ImageDoneEffect
<1>2. r.obj \in Parts(r.obj.from) /\ r.image \in ImagesOf(r.obj)
    BY DEF OrderInv, Single, Own
<1>3. Fact(r.obj, r.image) \in Complete(r.obj.from)
    BY <1>2, CompleteHas
<1>4. \A f \in context' : f \in context \/ (f = Fact(r.obj, r.image) /\ f.obj = r.obj)
    BY <1>1 DEF Set, Fact
<1>5. \A f \in context' : f \in context \/ (f.obj.from \in 1..started /\ f \in Complete(f.obj.from))
    BY <1>1, <1>3, <1>4
<1> QED
    BY <1>1, <1>5, OwnKept

\* The remaining steps add no request, no loop and no fact of a Saver.
LEMMA RestOwn ==
    ASSUME SaverInv, OrderInv, Own,
           \/ Bystander \/ Ends \/ CleanUp \/ LoopReturn \/ LoopEnd \/ ImageArrives
           \/ \E k \in 1..started : Failing(k) \/ Blank(k)
    PROVE  Own'
<1>1. CASE Bystander
    BY <1>1, OwnKept DEF Bystander
<1>2. CASE Ends
    BY <1>2, OwnKept DEF Ends, SaverInv, Traceable
<1>3. CASE CleanUp
    BY <1>3, OwnKept DEF CleanUp, SaveContext, AfterDelete, saverVars, netVars
<1>4. CASE LoopReturn \/ LoopEnd
    <2>1. UNCHANGED <<saver, started, inflight, done, context>> /\ block' = NoBlock
        BY <1>4 DEF LoopReturn, LoopEnd, SaveContext, saverVars, netVars, dataVars
    <2> QED
        BY <2>1, OwnKept
<1>5. CASE ImageArrives
    <2>1. /\ inflight' \cup done' \subseteq inflight \cup done /\ inflight' \subseteq inflight
          /\ UNCHANGED <<saver, started, block, context>>
        BY <1>5 DEF ImageArrives, saverVars
    <2> QED
        BY <2>1, OwnKept
<1>6. ASSUME NEW k \in 1..started, Failing(k) PROVE Own'
    BY <1>6, OwnKept DEF Failing
<1>7. ASSUME NEW k \in 1..started, Blank(k) PROVE Own'
    BY <1>7, OwnKept DEF Blank
<1> QED
    BY <1>1, <1>2, <1>3, <1>4, <1>5, <1>6, <1>7

\* With nothing under way, a step that neither begins nor ends a download changes
\* nothing of it.
LEMMA EndedStep ==
    ASSUME SaverInv, OrderInv, Ended, [Next]_vars, ~Begin, ~Ends, ~running
    PROVE  /\ Ended'
           /\ \A f : f.obj.from # 0 => (f \in store' <=> f \in store)
           /\ withheld' = withheld
<1>1. inflight = {} /\ done = {} /\ block = NoBlock /\ ~cleanup
    BY DEF Ended
<1>2. Bystander \/ \E k \in 1..started : Failing(k)
    BY <1>1, StepKinds DEF CleanUp, LoopReturn, LoopTurn, LoopEnd, ImageArrives, ImageDone,
                ProjectArrives, QuizArrives, OrganisationArrives, ListArrives, Blank, Answered
<1>3. CASE Bystander
    BY <1>3 DEF Bystander, Ended, SaverInv, Traceable
<1>4. ASSUME NEW k \in 1..started, Failing(k)
      PROVE  Ended' /\ store' = store /\ withheld' = withheld
    BY <1>4 DEF Failing, Ended
<1> QED
    BY <1>2, <1>3, <1>4

LEMMA OwnStep ==
    SaverInv /\ OrderInv /\ OwnInv /\ [Next]_vars => OwnInv'
<1> SUFFICES ASSUME SaverInv, OrderInv, Own, Ended, [Next]_vars PROVE Own' /\ Ended'
    BY DEF OwnInv
<1>1. TypeOK'
    BY SaverInvStep DEF SaverInv
<1>2. ASSUME LoopTurn PROVE Own'
    <2>1. block # NoBlock
        BY <1>2 DEF LoopTurn
    <2> QED
        BY <1>2, <2>1, TurnEffect, TurnOwn, RestOwn
<1>3. Own'
    BY <1>1, <1>2, StepKinds, BeginOwn, ProjectArrivesOwn, ListArrivesOwn, QuizArrivesOwn,
       OrganisationArrivesOwn, ImageDoneOwn, RestOwn
<1>4. Ended'
    <2>1. CASE Ends
        BY <2>1 DEF Ends, Ended
    <2>2. CASE ~Begin /\ ~Ends /\ running
        BY <2>2, Frame DEF Ended
    <2>3. CASE ~Begin /\ ~Ends /\ ~running
        BY <2>3, EndedStep
    <2> QED
        BY <2>1, <2>2, <2>3, BeginOwn
<1> QED
    BY <1>3, <1>4

LEMMA OwnInit == Init => OwnInv
BY DEF Init, OwnInv, Own, Ended, Looping

-----------------------------------------------------------------------------
(* The download implements Replacement *)

\* Nothing of Saver k is under way on either queue.
Quiet(k) ==
    /\ \A r \in inflight \cup done : r.obj.from # k
    /\ ~Looping(k)
    /\ background = Idle \/ background.from # k

LEMMA QuietNow == ASSUME NEW k PROVE (Outstanding(k) = {}) <=> Quiet(k)
BY DEF Outstanding, Quiet, Looping

LEMMA QuietNext == ASSUME NEW k PROVE (Outstanding(k)' = {}) <=> Quiet(k)'
BY DEF Outstanding, Quiet, Looping

\* A quiet Saver stays quiet and fails no more, and nothing more is learnt of it.
LEMMA QuietStays ==
    ASSUME SaverInv, OrderInv, [Next]_vars, ~Begin, ~Ends, NEW k \in 1..started,
           Outstanding(k) = {}
    PROVE  /\ Outstanding(k)' = {} /\ saver'[k].failed = saver[k].failed
           /\ \A f \in context' : f \in context \/ f.obj.from # k
           /\ \A o \in withheld' : o \in withheld \/ o.from # k
<1> DEFINE Rests == /\ Quiet(k)' /\ saver'[k].failed = saver[k].failed
                    /\ \A f \in context' : f \in context \/ f.obj.from # k
                    /\ \A o \in withheld' : o \in withheld \/ o.from # k
<1> SUFFICES Rests
    BY QuietNext
<1>1. Quiet(k)
    BY QuietNow
<1>2. ASSUME saver' = saver, background' = background,
             \A r \in inflight' \cup done' : r \in inflight \cup done \/ r.obj.from # k,
             Looping(k)' => Looping(k),
             \A f \in context' : f \in context \/ f.obj.from # k,
             \A o \in withheld' : o \in withheld \/ o.from # k
      PROVE  Rests
    BY <1>1, <1>2 DEF Quiet
<1>3. CASE Bystander
    <2>1. k # 0
        BY DEF SaverInv, TypeOK
    <2> QED
        BY <1>1, <1>3, <2>1 DEF Bystander, Quiet, Looping
<1>9. ASSUME NEW j \in 1..started, Failing(j) PROVE Rests
    <2>1. j # k
        BY <1>9 DEF Failing
    <2> QED
        BY <1>1, <1>9, <2>1 DEF Failing, Quiet, Looping
<1> HIDE DEF Rests
<1>4. CASE CleanUp
    BY <1>2, <1>4 DEF CleanUp, SaveContext, AfterDelete, Looping, saverVars, netVars
<1>5. CASE LoopReturn \/ LoopEnd
    BY <1>2, <1>5 DEF LoopReturn, LoopEnd, SaveContext, Looping, saverVars, netVars, dataVars
<1>6. CASE ImageArrives
    BY <1>2, <1>6 DEF ImageArrives, Looping, saverVars
<1>7. CASE ImageDone
    <2>1. PICK r \in done :
            /\ done' = done \ {r}
            /\ context' = context \cup Set(r.obj, r.image, context)
            /\ UNCHANGED <<saver, inflight, block, background, withheld>>
        BY <1>7, ImageDoneEffect
    <2>2. \A f \in Set(r.obj, r.image, context) : f.obj = r.obj
        BY DEF Set, Fact
    <2>3. r.obj.from # k
        BY <1>1 DEF Quiet
    <2> QED
        BY <1>2, <2>1, <2>2, <2>3 DEF Looping
<1>8. CASE LoopTurn
    <2>1. block # NoBlock
        BY <1>8 DEF LoopTurn
    <2>2. PICK o \in block.rest, asked \in QuizAsked(block.from) : Turn(o, asked)
        BY <1>8, TurnEffect
    <2>3. block.from # k
        BY <1>1, <2>1 DEF Quiet, Looping
    <2>4. /\ o.from = block.from /\ block'.from = block.from
          /\ \A r \in inflight' : r \in inflight \/ r.obj = o
          /\ \A f \in context' : f \in context \/ f.obj = o
        BY <2>1, <2>2, TurnType
    <2>5. UNCHANGED <<saver, background, done, withheld>>
        BY <2>2 DEF Turn
    <2>6. ~Looping(k)'
        BY <2>3, <2>4 DEF Looping
    <2> QED
        BY <1>2, <2>3, <2>4, <2>5, <2>6
<1>10. ASSUME NEW j \in 1..started,
              \/ ProjectArrives(j) \/ QuizArrives(j) \/ OrganisationArrives(j) \/ Blank(j)
              \/ \E kind \in {"coins", "locations"} : ListArrives(kind, j)
       PROVE  Rests
    <2>1. j # k
        BY <1>1, <1>10
           DEF Quiet, ProjectArrives, QuizArrives, OrganisationArrives, ListArrives, Blank, Answered
    <2>2. CASE ProjectArrives(j)
        <3>1. \A kind : Ask(kind, ProjectObject(j)).obj.from # k
            BY <2>1, ObjectsOf DEF Ask, Request, SaverInv
        <3>2. \A f \in Insert({ProjectObject(j)}) : f.obj.from = j
            BY ObjectsOf, InsertType DEF SaverInv
        <3> QED
            BY <1>2, <2>1, <2>2, <3>1, <3>2 DEF ProjectArrives, Looping
    <2>3. CASE QuizArrives(j)
        <3>1. PICK r \in inflight :
                /\ r.obj \in Objects /\ r.obj.from = j
                /\ inflight' = inflight \ {r}
                /\ \A f \in context' : f \in context \/ f.obj = QuizObject(r.obj)
                /\ UNCHANGED <<saver, done, block, background, withheld>>
            BY <2>3, QuizArrivesEffect
        <3>2. QuizObject(r.obj).from = j
            BY <3>1, QuizObjectType
        <3> QED
            BY <1>2, <2>1, <3>1, <3>2 DEF Looping
    <2>4. CASE OrganisationArrives(j)
        <3> DEFINE o == OrganisationObject(j)
                   ctx == context \cup Insert({o})
        <3>1. /\ inflight' \subseteq inflight \cup ImageRequests(o)
              /\ context' \subseteq ctx \cup Set(o, "linked", ctx)
              /\ UNCHANGED <<saver, done, block, background, withheld>>
            BY <2>4 DEF OrganisationArrives, SaveContext
        <3>2. o.from = j /\ \A q \in ImageRequests(o) : q.obj.from # k
            BY <2>1, ObjectsOf DEF ImageRequests, Request, SaverInv
        <3>3. \A f \in Insert({o}) \cup Set(o, "linked", ctx) : f.obj = o
            BY DEF Insert, Set, Exists, Fact
        <3>4. \A f \in context' : f \in context \/ f.obj.from # k
            BY <2>1, <3>1, <3>2, <3>3
        <3> HIDE DEF o, ctx
        <3> QED
            BY <1>2, <3>1, <3>2, <3>4 DEF Looping
    <2>5. ASSUME NEW kind \in {"coins", "locations"}, ListArrives(kind, j)
          PROVE  Rests
        <3>1. PICK objects \in SUBSET ListObjects(kind, j) :
                /\ inflight' \subseteq inflight
                /\ context' = context \cup Insert(objects)
                /\ block'.from = j
                /\ withheld' = withheld \cup WithQuizzes(ListObjects(kind, j) \ objects)
                /\ UNCHANGED <<saver, done, background>>
            BY <2>5 DEF ListArrives
        <3>2. \A o \in objects : o.from = j
            BY ListType DEF SaverInv
        <3>3. \A f \in Insert(objects) : f.obj \in objects
            BY DEF Insert, Exists, Fact
        <3>4. \A o \in WithQuizzes(ListObjects(kind, j) \ objects) : o.from = j
            <4>1. ListObjects(kind, j) \ objects \in SUBSET ListObjects(kind, j)
                OBVIOUS
            <4> QED
                BY <4>1, ListType DEF SaverInv
        <3> QED
            BY <1>2, <2>1, <3>1, <3>2, <3>3, <3>4 DEF Looping
    <2>6. CASE Blank(j)
        <3>1. PICK r \in Answered("quiz", j) \cup Answered("organisation", j) :
                /\ inflight' \subseteq inflight
                /\ withheld' = withheld \cup {Withholds(r, j)}
                /\ UNCHANGED <<saver, done, block, background, context>>
            BY <2>6 DEF Blank
        <3>2. Withholds(r, j).from = j
            <4>1. r.obj.from = j
                BY DEF Answered
            <4>2. OrganisationObject(j).from = j
                BY DEF OrganisationObject, Object
            <4>3. QuizObject(r.obj).from = j
                BY <4>1 DEF QuizObject, Object
            <4> QED
                BY <4>2, <4>3 DEF Withholds
        <3> QED
            BY <1>2, <2>1, <3>1, <3>2 DEF Looping
    <2> QED
        BY <1>10, <2>2, <2>3, <2>4, <2>5, <2>6
<1> QED
    BY <1>3, <1>4, <1>5, <1>6, <1>7, <1>8, <1>9, <1>10, StepKinds

\* What the latest Saver has saved stays saved: the clean-up runs before its first
\* object, and every other step that saves saves the whole context.
LEMMA SavedStays ==
    ASSUME SaverInv, OrderInv, [Next]_vars, ~Begin, ~Ends,
           NEW f \in store, f.obj.from = started, started # 0
    PROVE  f \in store'
<1>1. f \in context
    BY DEF SaverInv, Traceable
<1>2. CASE CleanUp
    <2>1. Awaits("project", started) /\ started \in 1..started
        BY <1>2 DEF CleanUp, OrderInv, Staged, SaverInv, TypeOK
    <2> QED
        BY <1>1, <2>1 DEF OrderInv, Staged, BeforeProject
<1>3. CASE Bystander \/ LoopReturn \/ LoopEnd \/ ImageArrives
    BY <1>1, <1>3 DEF Bystander, LoopReturn, LoopEnd, ImageArrives, SaveContext, dataVars
<1>4. CASE LoopTurn
    BY <1>4, TurnEffect DEF Turn
<1>5. CASE ImageDone
    BY <1>1, <1>5, ImageDoneEffect
<1>6. ASSUME NEW k \in 1..started,
             \/ Failing(k) \/ ProjectArrives(k) \/ OrganisationArrives(k)
             \/ \E kind \in {"coins", "locations"} : ListArrives(kind, k)
      PROVE  f \in store'
    BY <1>1, <1>6 DEF Failing, ProjectArrives, OrganisationArrives, ListArrives, SaveContext
<1>7. ASSUME NEW k \in 1..started, QuizArrives(k) PROVE f \in store'
    BY <1>1, <1>7, QuizArrivesEffect
<1>8. ASSUME NEW k \in 1..started, Blank(k) PROVE f \in store'
    BY <1>1, <1>8 DEF Blank
<1> QED
    BY <1>2, <1>3, <1>4, <1>5, <1>6, <1>7, <1>8, StepKinds

\* What was withheld stays withheld.
LEMMA WithheldGrows ==
    ASSUME SaverInv, OrderInv, [Next]_vars
    PROVE  withheld \subseteq withheld'
<1>1. CASE LoopTurn
    BY <1>1, TurnEffect DEF Turn, Ends
<1>2. ASSUME NEW k \in 1..started, Failing(k) \/ ProjectArrives(k) \/ OrganisationArrives(k) \/ Blank(k)
      PROVE  withheld \subseteq withheld'
    BY <1>2 DEF Failing, ProjectArrives, OrganisationArrives, Blank
<1>3. ASSUME NEW k \in 1..started, NEW kind \in {"coins", "locations"}, ListArrives(kind, k)
      PROVE  withheld \subseteq withheld'
    BY <1>3 DEF ListArrives
<1>4. CASE Bystander \/ Begin \/ Ends \/ CleanUp \/ LoopReturn \/ LoopEnd \/ ImageArrives
    BY <1>4 DEF Bystander, Begin, Ends, CleanUp, LoopReturn, LoopEnd, ImageArrives
<1> QED
    BY <1>1, <1>2, <1>3, <1>4, StepKinds, ImageDoneEffect, QuizArrivesEffect

\* A project consists of facts about its own Saver's objects.
LEMMA CompleteFrom == ASSUME NEW k PROVE \A f \in Complete(k) : f.obj.from = k
<1> DEFINE o == {OrganisationObject(k)} \cup CoinObjects(k) \cup LocationObjects(k)
           quizzes == {QuizObject(l) : l \in LocationObjects(k)}
<1>1. \A f \in Complete(k) : f.obj \in {ProjectObject(k)} \cup o \cup quizzes
    BY DEF Complete, Insert, Exists, Fact
<1>2. ProjectObject(k).from = k /\ \A x \in o : x.from = k
    BY DEF ProjectObject, OrganisationObject, CoinObjects, LocationObjects, Object
<1>3. \A x \in quizzes : x.from = k
    BY <1>2 DEF QuizObject, Object
<1> QED
    BY <1>1, <1>2, <1>3

LEMMA CompleteFromNext == ASSUME NEW k PROVE \A f \in Complete(k)' : f.obj.from = k
<1> DEFINE o == {OrganisationObject(k)'} \cup CoinObjects(k)' \cup LocationObjects(k)'
           quizzes == {QuizObject(l) : l \in LocationObjects(k)'}
<1>1. \A f \in Complete(k)' : f.obj \in {ProjectObject(k)'} \cup o \cup quizzes
    BY DEF Complete, Insert, Exists, Fact
<1>2. ProjectObject(k)'.from = k /\ \A x \in o : x.from = k
    BY DEF ProjectObject, OrganisationObject, CoinObjects, LocationObjects, Object
<1>3. \A x \in quizzes : x.from = k
    BY <1>2 DEF QuizObject, Object
<1> QED
    BY <1>1, <1>2, <1>3

\* What the refinement rests on.
DownloadInv == SaverInv /\ OrderInv /\ PromiseInv /\ OwnInv

\* The latest Saver has saved only what it has to save; when it is over, all of it
\* that was not left out, and everything it knows.
LEMMA SavedPart ==
    DownloadInv => /\ Saved \subseteq ToSave
                   /\ Phase = "over" => /\ ToSave \ Lost \subseteq Saved
                                        /\ \A f \in context : f.obj.from = started =>
                                               f \in Saved \cup Unsaved(started)
<1> SUFFICES ASSUME DownloadInv
             PROVE  /\ Saved \subseteq ToSave
                    /\ Phase = "over" => /\ ToSave \ Lost \subseteq Saved
                                         /\ \A f \in context : f.obj.from = started =>
                                                f \in Saved \cup Unsaved(started)
    OBVIOUS
<1>1. Saved \subseteq ToSave
    BY DEF Saved, ToSave, DownloadInv, OwnInv, Own, SaverInv, Traceable
<1>2. ASSUME Phase = "over"
      PROVE  /\ ToSave \ Lost \subseteq Saved
             /\ \A f \in context : f.obj.from = started => f \in Saved \cup Unsaved(started)
    <2>1. running /\ ~saver[started].failed /\ Outstanding(started) = {}
        BY <1>2 DEF Phase
    <2>2. started \in 1..started /\ started # 0
        BY <2>1 DEF DownloadInv, PromiseInv, SaverInv, TypeOK
    <2>3. ~cleanup /\ ~Awaits("coins", started) /\ ~Awaits("project", started) /\ ~Looping(started)
        <3>1. Quiet(started)
            BY <2>1, QuietNow
        <3> QED
            BY <3>1 DEF Quiet, DownloadInv, OrderInv, Staged, Awaits
    <2>4. ToSave \ Lost \subseteq store
        BY <2>1, <2>2, <2>3, QuietComplete DEF QuietMeansComplete, DownloadInv, ToSave, Lost
    <2>5. \A f \in Complete(started) : f.obj.from = started
        BY CompleteFrom
    <2>6. SavePromise(started)
        BY <2>1, <2>2, <2>3 DEF DownloadInv, PromiseInv, Healthy, Promises
    <2>7. ASSUME NEW f \in context, f.obj.from = started PROVE f \in Saved \cup Unsaved(started)
        <3>1. f \in Complete(started)
            BY <2>2, <2>7 DEF DownloadInv, OwnInv, Own
        <3>2. f \in store \/ (f.obj.kind = "organisation" /\ f.what \in Images)
            BY <2>3, <2>6, <2>7 DEF SavePromise
        <3> QED
            BY <2>2, <2>7, <3>1, <3>2, OrganisationImage DEF Saved
    <2> QED
        BY <2>2, <2>4, <2>5, <2>7 DEF Saved, ToSave
<1> QED
    BY <1>1, <1>2

\* The refinement mapping, with the number of the Saver held fixed: in the state
\* before a step and in the one after it.
LEMMA View ==
    ASSUME NEW k, k = started, k # 0
    PROVE  /\ ToSave = Complete(k) \ Unsaved(k)
           /\ Lost = {f \in Complete(k) : f.obj \in withheld} \ Unsaved(k)
           /\ Saved = {f \in store : f.obj.from = k} \ Unsaved(k)
           /\ Phase = IF ~running THEN "off" ELSE IF saver[k].failed THEN "failed"
                      ELSE IF Outstanding(k) = {} THEN "over" ELSE "loading"
BY DEF ToSave, Lost, Missing, Saved, Phase

LEMMA ViewNext ==
    ASSUME NEW k, k = started', k # 0
    PROVE  /\ ToSave' = Complete(k)' \ Unsaved(k)'
           /\ Lost' = {f \in Complete(k)' : f.obj \in withheld'} \ Unsaved(k)'
           /\ Saved' = {f \in store' : f.obj.from = k} \ Unsaved(k)'
           /\ Phase' = IF ~running' THEN "off" ELSE IF saver'[k].failed THEN "failed"
                       ELSE IF Outstanding(k)' = {} THEN "over" ELSE "loading"
<1>1. Complete(started)' = Complete(k)' /\ Unsaved(started)' = Unsaved(k)'
    BY DEF Complete, Unsaved, ProjectObject, OrganisationObject, CoinObjects, LocationObjects
<1>2. Outstanding(started)' = Outstanding(k)'
    BY DEF Outstanding
<1>3. Lost' = {f \in Complete(k)' : f.obj \in withheld'} \ Unsaved(k)'
    BY <1>1 DEF Lost, Missing
<1> QED
    BY <1>1, <1>2, <1>3 DEF ToSave, Saved, Phase

LEMMA BeginReplaces ==
    ASSUME DownloadInv, Begin
    PROVE  Promise!BeginDownload
<1>1. PICK p \in Projects, ctx \in SUBSET context, rows \in SUBSET context :
        StartSaver(p, ctx, rows) /\ withheld' = withheld
    BY DEF Begin
<1>0. PICK k : k = started + 1
    OBVIOUS
<1> DEFINE q == Ask("project", Object("project", p, k))
<1>2. /\ started' = k /\ q \in inflight' /\ running' = TRUE
      /\ store' \subseteq context
    BY <1>0, <1>1 DEF StartSaver, SaveContext, AfterDelete
<1>3. started \in Nat /\ k \in Savers /\ k # 0 /\ k \notin 0..started
    BY <1>0, <1>1, SaverAssumption DEF StartSaver, DownloadInv, SaverInv, TypeOK, Savers
<1>4. saver'[k].failed = FALSE
    BY <1>0, <1>1, <1>3 DEF StartSaver, DownloadInv, SaverInv, TypeOK
<1>5. q.obj.from = k
    BY DEF Ask, Request, Object
<1> HIDE DEF q
<1>6. Outstanding(k)' # {}
    BY <1>2, <1>5, QuietNext DEF Quiet
<1>7. \A f \in store' : f.obj.from # k
    BY <1>2, <1>3 DEF DownloadInv, OrderInv, Staged
<1>8. Saved' = {} /\ Phase' = "loading"
    BY <1>2, <1>3, <1>4, <1>6, <1>7, ViewNext
<1>9. Lost' = {}
    <2>1. \A o \in withheld' : o.from # k
        BY <1>1, <1>3 DEF DownloadInv, SaverInv, Requested
    <2>2. {f \in Complete(k)' : f.obj \in withheld'} = {}
        BY <2>1, CompleteFromNext
    <2>3. Lost' = {f \in Complete(k)' : f.obj \in withheld'} \ Unsaved(k)'
        BY <1>2, <1>3, ViewNext
    <2> QED
        BY <2>2, <2>3
<1> QED
    BY <1>0, <1>2, <1>8, <1>9 DEF Promise!BeginDownload

\* A step within a download is progress or is not seen.
LEMMA StepReplaces ==
    ASSUME DownloadInv, SaverInv', [Next]_vars, ~Begin, ~Ends,
           Saved' \subseteq ToSave', Phase' = "over" => ToSave' \ Lost' \subseteq Saved'
    PROVE  Promise!Progress \/ UNCHANGED <<started, ToSave, Lost, Saved, Phase>>
<1> USE DEF DownloadInv
<1>1. started' = started /\ running' = running
    BY Frame
<1>2. CASE started = 0
    BY <1>1, <1>2 DEF PromiseInv, ToSave, Lost, Saved, Phase
<1>3. CASE started # 0
    <2>0. PICK k : k = started
        OBVIOUS
    <2>1. k \in 1..started
        BY <1>3, <2>0 DEF SaverInv, TypeOK
    <2>2. saver'[k].project = saver[k].project /\ (saver[k].failed => saver'[k].failed)
        BY <2>1, Frame
    <2>3. ToSave' = ToSave /\ Complete(k)' = Complete(k) /\ Unsaved(k)' = Unsaved(k)
        <3>1. Complete(k)' = Complete(k) /\ Unsaved(k)' = Unsaved(k)
            BY <2>2, SameContents
        <3>2. ToSave = Complete(k) \ Unsaved(k) /\ ToSave' = Complete(k)' \ Unsaved(k)'
            BY <1>1, <1>3, <2>0, View, ViewNext
        <3> QED
            BY <3>1, <3>2
    <2>4. Saved \subseteq Saved'
        BY <1>1, <1>3, <2>0, <2>3, View, ViewNext, SavedStays
    <2>5. /\ Lost = {f \in Complete(k) : f.obj \in withheld} \ Unsaved(k)
          /\ Lost' = {f \in Complete(k) : f.obj \in withheld'} \ Unsaved(k)
        BY <1>1, <1>3, <2>0, <2>3, View, ViewNext
    <2>6. Lost \subseteq Lost'
        BY <2>5, WithheldGrows
    <2>7. CASE ~running
        <3>0. (\A f : f.obj.from # 0 => (f \in store' <=> f \in store)) /\ withheld' = withheld
            BY <2>7, EndedStep DEF OwnInv
        <3>1. Saved' = Saved
            <4>1. /\ Saved = {f \in store : f.obj.from = k} \ Unsaved(k)
                  /\ Saved' = {f \in store' : f.obj.from = k} \ Unsaved(k)
                BY <1>1, <1>3, <2>0, <2>3, View, ViewNext
            <4>2. {f \in store : f.obj.from = k} = {f \in store' : f.obj.from = k}
                BY <1>3, <2>0, <3>0
            <4> QED
                BY <4>1, <4>2
        <3>2. Phase' = Phase
            BY <1>1, <2>7 DEF Phase
        <3>3. Lost' = Lost
            BY <2>5, <3>0
        <3> QED
            BY <1>1, <2>3, <3>1, <3>2, <3>3
    <2>8. CASE running /\ saver[k].failed
        <3>1. Phase = "failed" /\ Phase' = "failed"
            BY <1>1, <1>3, <2>0, <2>2, <2>8, View, ViewNext
        <3> QED
            BY <1>1, <2>3, <2>4, <2>6, <3>1 DEF Promise!Progress
    <2>9. CASE running /\ ~saver[k].failed /\ Outstanding(k) = {}
        <3>0. /\ Outstanding(k)' = {} /\ saver'[k].failed = saver[k].failed
              /\ \A f \in context' : f \in context \/ f.obj.from # k
              /\ \A o \in withheld' : o \in withheld \/ o.from # k
            BY <2>1, <2>9, QuietStays
        <3>1. Phase = "over" /\ Phase' = "over"
            BY <1>1, <1>3, <2>0, <2>9, <3>0, View, ViewNext
        <3>2. Saved' \subseteq Saved
            <4>1. Saved' = {f \in store' : f.obj.from = k} \ Unsaved(k)
                BY <1>1, <1>3, <2>0, <2>3, ViewNext
            <4>2. store' \subseteq context'
                BY DEF SaverInv, Traceable
            <4>3. \A f \in context : f.obj.from = k => f \in Saved \cup Unsaved(k)
                BY <2>0, <3>1, SavedPart
            <4> QED
                BY <3>0, <4>1, <4>2, <4>3
        <3>3. Lost' \subseteq Lost
            BY <2>5, <3>0, CompleteFrom
        <3> QED
            BY <1>1, <2>3, <2>4, <2>6, <3>1, <3>2, <3>3
    <2>10. CASE running /\ ~saver[k].failed /\ Outstanding(k) # {}
        <3>1. Phase = "loading" /\ Phase' \in {"loading", "failed", "over"}
            BY <1>1, <1>3, <2>0, <2>10, View, ViewNext
        <3> QED
            BY <1>1, <2>3, <2>4, <2>6, <3>1 DEF Promise!Progress
    <2> QED
        BY <2>7, <2>8, <2>9, <2>10
<1> QED
    BY <1>2, <1>3

LEMMA EndsReplaces ==
    ASSUME DownloadInv, Ends
    PROVE  Promise!CutOff
<1>1. UNCHANGED <<saver, started, store, withheld>> /\ running' = FALSE
    BY DEF Ends
<1>2. Phase' = "off"
    BY <1>1 DEF Phase
<1>3. CASE started = 0
    BY <1>1, <1>2, <1>3 DEF ToSave, Lost, Saved, Promise!CutOff
<1>4. CASE started # 0
    <2>0. PICK k : k = started
        OBVIOUS
    <2>1. Complete(k)' = Complete(k) /\ Unsaved(k)' = Unsaved(k)
        BY <1>1, SameContents
    <2>2. ToSave' = ToSave /\ Lost' = Lost /\ Saved' = Saved
        <3>1. /\ ToSave = Complete(k) \ Unsaved(k)
              /\ ToSave' = Complete(k)' \ Unsaved(k)'
              /\ Saved = {f \in store : f.obj.from = k} \ Unsaved(k)
              /\ Saved' = {f \in store' : f.obj.from = k} \ Unsaved(k)'
            BY <1>1, <1>4, <2>0, View, ViewNext
        <3>2. store' = store
            BY <1>1
        <3>3. Lost' = Lost
            <4>1. /\ Lost = {f \in Complete(k) : f.obj \in withheld} \ Unsaved(k)
                  /\ Lost' = {f \in Complete(k)' : f.obj \in withheld'} \ Unsaved(k)'
                BY <1>1, <1>4, <2>0, View, ViewNext
            <4> QED
                BY <1>1, <2>1, <4>1
        <3> QED
            BY <2>1, <3>1, <3>2, <3>3
    <2> QED
        BY <1>1, <1>2, <2>2 DEF Promise!CutOff
<1> QED
    BY <1>3, <1>4

\* The download implements Replacement: what the latest Saver has saved is a part of
\* its project that only grows, whatever clean-ups, late replies and restarts do; the
\* download is over only with all of it saved that the replies did not leave out; and
\* what is saved then stays as it is until the next download begins from nothing.
THEOREM DownloadReplacesProject == Spec => ReplacesProject
<1>1. Spec => []DownloadInv
    <2>1. Spec => []OwnInv
        BY DownloadInvariant, DownloadOrder, OwnInit, OwnStep, PTL DEF Spec
    <2> QED
        BY <2>1, PromisesHold, DownloadInvariant, DownloadOrder, PTL DEF DownloadInv
<1>2. Init => Promise!ReplacementInit
    BY DEF Init, ToSave, Lost, Saved, Phase, Promise!ReplacementInit
<1>3. DownloadInv' => (Saved \subseteq ToSave)' /\ (Phase = "over" => ToSave \ Lost \subseteq Saved)'
    <2>1. DownloadInv => Saved \subseteq ToSave /\ (Phase = "over" => ToSave \ Lost \subseteq Saved)
        BY SavedPart
    <2> QED
        BY <2>1, PTL
<1>4. DownloadInv /\ DownloadInv' /\ [Next]_vars =>
          [Promise!ReplacementNext]_(Promise!replacementVars)
    <2> SUFFICES ASSUME DownloadInv, DownloadInv', [Next]_vars
                 PROVE  [Promise!ReplacementNext]_(Promise!replacementVars)
        OBVIOUS
    <2>1. CASE Begin
        BY <2>1, BeginReplaces DEF Promise!ReplacementNext
    <2>2. CASE Ends
        BY <2>2, EndsReplaces DEF Promise!ReplacementNext
    <2>3. CASE ~Begin /\ ~Ends
        <3>1. SaverInv'
            BY DEF DownloadInv
        <3> QED
            BY <1>3, <2>3, <3>1, StepReplaces DEF Promise!ReplacementNext, Promise!replacementVars
    <2> QED
        BY <2>1, <2>2, <2>3
<1> QED
    BY <1>1, <1>2, <1>4, PTL DEF Spec, ReplacesProject, Promise!ReplacementSpec
=============================================================================

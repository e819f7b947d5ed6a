---------------------------- MODULE Publication ----------------------------
(***************************************************************************)
(* The publication of item versions (core/content/publish.go, the          *)
(* certificate check of core/gate/verifier.go, db/queries/content.sql).    *)
(*                                                                         *)
(* Publish runs in a READ COMMITTED transaction of its caller: it reads    *)
(* the version, judges it and its certificate, and then writes three       *)
(* times: the status of the version, a publication row, and the current    *)
(* version of the item.  None of the three statements tests the status.    *)
(***************************************************************************)
EXTENDS Naturals, Sequences

CONSTANTS
    Callers,           \* concurrent transactions that publish
    PublicationIds,    \* primary keys, chosen by the callers
    Versions, Items,   \* item_version and item rows
    ItemOf,            \* item_version.item_id
    Certs,             \* gate_certificate rows
    BoundTo,           \* gate_certificate.artifact_ref
    PublishCerts,      \* the certificates of type publish
    Addressed,         \* versions whose id is the digest of their content
    Rendered           \* versions with a rendered snapshot

ASSUME RowsAssumption ==
          /\ ItemOf \in [Versions -> Items]
          /\ BoundTo \in [Certs -> Versions]
          /\ PublishCerts \subseteq Certs
          /\ Addressed \subseteq Versions /\ Rendered \subseteq Versions

Statuses == {"draft", "quarantined", "published", "retired"}

\* The moves models/status.go allows.
Moves == {<<"draft", "quarantined">>, <<"draft", "published">>,
          <<"quarantined", "published">>, <<"published", "retired">>}

\* A request that names rows which do not exist fails its reads; it is left out.
Requests     == [id : PublicationIds, version : Versions, cert : Certs]
NoRequest    == <<>>

VARIABLES
    status,      \* item_version.status
    certified,   \* item_version.gate_certificate_id: a set of at most one
    current,     \* item.current_version_id: a set of at most one
    published,   \* publication rows, in commit order
    pc, req      \* where each caller is in its transaction, and its request

tables == <<status, certified, current, published>>
vars   == <<status, certified, current, published, pc, req>>

-----------------------------------------------------------------------------
\* A transaction keeps the lock of each row it has written to its end.
HoldsVersion(c, v) == pc[c] \in {"insert", "forward", "end"} /\ req[c].version = v
HoldsId(c, id)     == pc[c] \in {"forward", "end"} /\ req[c].id = id
HoldsItem(c, i)    == pc[c] = "end" /\ ItemOf[req[c].version] = i

\* Only rows whose history has ended come with a status other than these two.
Init ==
    /\ status \in [Versions -> {"draft", "quarantined", "retired"}]
    /\ certified = [v \in Versions |-> {}]
    /\ current = [i \in Items |-> {}]
    /\ published = <<>>
    /\ pc = [c \in Callers |-> "idle"]
    /\ req = [c \in Callers |-> NoRequest]

Goto(c, label) == pc' = [pc EXCEPT ![c] = label]

Return(c) == Goto(c, "idle") /\ req' = [req EXCEPT ![c] = NoRequest]

Begin(c) ==
    /\ pc[c] = "idle"
    /\ \E r \in Requests : req' = [req EXCEPT ![c] = r]
    /\ Goto(c, "read")
    /\ UNCHANGED tables

\* Mutation: anything that is not published may be published.
MayMoveUnlessPublished(v) == status[v] # "published"

MayMove(v) == status[v] \in {"draft", "quarantined"}

\* Mutation: any certificate of the version will do.
VerifiedByRef(crt, v) == BoundTo[crt] = v

\* CertificateVerifier.Verify: the certificate is for publishing this version.
Verified(crt, v) == crt \in PublishCerts /\ BoundTo[crt] = v

\* The reads: GetItemVersion, the content address, the certificate and the
\* snapshot.  Certificates never change, so one step reads all of it.
Publishable(r) == /\ MayMove(r.version)
                  /\ r.version \in Addressed
                  /\ Verified(r.cert, r.version)
                  /\ r.version \in Rendered

Read(c) ==
    /\ pc[c] = "read"
    /\ \/ Publishable(req[c])  /\ Goto(c, "mark") /\ UNCHANGED req
       \/ ~Publishable(req[c]) /\ Return(c)
    /\ UNCHANGED tables

\* UpdateItemVersionPublished waits for the row, whatever its status by then.
Mark(c) ==
    /\ pc[c] = "mark"
    /\ \A d \in Callers \ {c} : ~HoldsVersion(d, req[c].version)
    /\ Goto(c, "insert")
    /\ UNCHANGED <<tables, req>>

\* Mutation: ON CONFLICT DO NOTHING.
TakenNever(id) == FALSE

Taken(id) == \E n \in DOMAIN published : published[n].id = id

\* InsertPublication waits for an uncommitted row with its key, and fails if
\* the key is taken; the caller then rolls back.
Insert(c) ==
    /\ pc[c] = "insert"
    /\ \A d \in Callers \ {c} : ~HoldsId(d, req[c].id)
    /\ \/ ~Taken(req[c].id) /\ Goto(c, "forward") /\ UNCHANGED req
       \/ Taken(req[c].id)  /\ Return(c)
    /\ UNCHANGED tables

\* ForwardItemCurrentVersion waits for the item row.
Forward(c) ==
    /\ pc[c] = "forward"
    /\ \A d \in Callers \ {c} : ~HoldsItem(d, ItemOf[req[c].version])
    /\ Goto(c, "end")
    /\ UNCHANGED <<tables, req>>

\* item.current_version_id after the version is published.
Forwarded(v) == [current EXCEPT ![ItemOf[v]] = {v}]

\* The caller commits, and the three writes become visible together.
Commit(c) ==
    /\ pc[c] = "end"
    /\ status' = [status EXCEPT ![req[c].version] = "published"]
    /\ certified' = [certified EXCEPT ![req[c].version] = {req[c].cert}]
    /\ published' = Append(published, req[c])
    /\ current' = Forwarded(req[c].version)
    /\ Return(c)

\* The caller rolls back, or its connection is lost.
Abort(c) == pc[c] # "idle" /\ Return(c) /\ UNCHANGED tables

Next == \E c \in Callers : \/ Begin(c) \/ Read(c) \/ Mark(c) \/ Insert(c)
                           \/ Forward(c) \/ Commit(c) \/ Abort(c)

Spec == Init /\ [][Next]_vars

-----------------------------------------------------------------------------
\* Every variable keeps its type, and an item points at a version of its own.
TypeOK ==
    /\ status \in [Versions -> Statuses]
    /\ certified \in [Versions -> SUBSET Certs]
    /\ current \in [Items -> SUBSET Versions]
    /\ \A i \in Items : \A v \in current[i] : ItemOf[v] = i
    /\ published \in Seq(Requests)
    /\ pc \in [Callers -> {"idle", "read", "mark", "insert", "forward", "end"}]
    /\ req \in [Callers -> Requests \cup {NoRequest}]

VersionsOf(i) == {v \in Versions : ItemOf[v] = i}

\* Row n is the latest one of the versions vs in rows.
IsLatest(rows, n, vs) == /\ rows[n].version \in vs
                         /\ \A m \in DOMAIN rows : m > n => rows[m].version \notin vs

\* Publication rows have keys of their own.
KeysDistinct ==
    \A m, n \in DOMAIN published : published[m].id = published[n].id => m = n

\* A version is published exactly if it has a publication row.
PublishedHasRow ==
    \A v \in Versions :
        status[v] = "published" <=> \E n \in DOMAIN published : published[n].version = v

\* A version carries the certificate of its latest publication row.
CarriesLatest ==
    \A n \in DOMAIN published, v \in Versions :
        IsLatest(published, n, {v}) => certified[v] = {published[n].cert}

\* An item points at the version its latest publication row names.
PointsAtLatest ==
    \A n \in DOMAIN published, i \in Items :
        IsLatest(published, n, VersionsOf(i)) => current[i] = {published[n].version}

\* The tables tell one story, however calls with equal or different keys,
\* versions and items overlap and abort: no key is used twice, and status,
\* certificate and pointer agree with the publication rows.
Accounted == KeysDistinct /\ PublishedHasRow /\ CarriesLatest /\ PointsAtLatest

\* No step publishes what was not proved publishable: each publication names
\* a certificate that was issued to publish this very version, and the
\* version's content proves its id and has been rendered.
OnlyProvedPublished ==
    \A n \in DOMAIN published :
        /\ published[n].cert \in PublishCerts
        /\ BoundTo[published[n].cert] = published[n].version
        /\ published[n].version \in Addressed \cap Rendered

\* The status moves only as models/status.go allows, although the UPDATE
\* that moves it runs after the check and does not repeat it.
StatusMovesForward ==
    [][\A v \in Versions : status'[v] # status[v] => <<status[v], status'[v]>> \in Moves]_vars

\* publish.go: a version is never issued again, "a second issue of the same
\* version would only make a second, false publication row".
PublishedOnce ==
    \A m, n \in DOMAIN published : published[m].version = published[n].version => m = n
=============================================================================

------------------------- MODULE PublicationProofs -------------------------
(***************************************************************************)
(* Theorems about Publication, for any number of callers, versions, items  *)
(* and certificates.  The invariant says what a caller that has passed the *)
(* checks may still rely on when it commits: what it proved of certificate *)
(* and content, its key, and that the version is not retired -- but not    *)
(* that the version is unpublished.                                        *)
(***************************************************************************)
EXTENDS Publication, TLAPS

Passed(c)  == pc[c] \in {"mark", "insert", "forward", "end"}
KeyHeld(c) == pc[c] \in {"forward", "end"}

\* What the checks established and nobody can undo.
ProvedOK(c) == Passed(c) => /\ req[c].cert \in PublishCerts
                            /\ BoundTo[req[c].cert] = req[c].version
                            /\ req[c].version \in Addressed \cap Rendered
                            /\ status[req[c].version] # "retired"

CallsOK == \A c \in Callers :
               /\ pc[c] # "idle" => req[c] \in Requests
               /\ ProvedOK(c)
               /\ KeyHeld(c) => ~Taken(req[c].id)

\* An inserted key is held by one caller.
KeyMutex == \A c, d \in Callers :
                KeyHeld(c) /\ KeyHeld(d) /\ req[c].id = req[d].id => c = d

IInv == TypeOK /\ CallsOK /\ KeyMutex /\ Accounted /\ OnlyProvedPublished

-----------------------------------------------------------------------------
LEMMA InitInv == Init => IInv
<1> SUFFICES ASSUME Init PROVE IInv
    OBVIOUS
<1>1. DOMAIN published = {}
    BY DEF Init
<1>2. TypeOK
    BY DEF Init, TypeOK, Statuses
<1>3. CallsOK /\ KeyMutex
    BY DEF Init, CallsOK, KeyMutex, ProvedOK, Passed, KeyHeld
<1>4. Accounted /\ OnlyProvedPublished
    BY <1>1 DEF Init, Accounted, KeysDistinct, PublishedHasRow, CarriesLatest,
                PointsAtLatest, OnlyProvedPublished
<1> QED
    BY <1>2, <1>3, <1>4 DEF IInv

\* Every step but a commit leaves the tables alone and moves one caller.
LEMMA CallerStep ==
    ASSUME IInv, NEW c \in Callers, UNCHANGED tables,
           NEW r \in Requests \cup {NoRequest}, req' = [req EXCEPT ![c] = r],
           NEW label \in {"idle", "read", "mark", "insert", "forward", "end"},
           pc' = [pc EXCEPT ![c] = label],
           label # "idle" => r \in Requests,
           label \in {"mark", "insert", "forward", "end"} =>
               r.cert \in PublishCerts /\ BoundTo[r.cert] = r.version
               /\ r.version \in Addressed \cap Rendered /\ status[r.version] # "retired",
           label \in {"forward", "end"} =>
               /\ ~Taken(r.id)
               /\ \A d \in Callers \ {c} : ~(KeyHeld(d) /\ req[d].id = r.id)
    PROVE  IInv'
<1> USE DEF IInv, tables
<1>1. TypeOK'
    BY DEF TypeOK
<1>2. /\ pc'[c] = label /\ req'[c] = r
      /\ \A d \in Callers \ {c} : pc'[d] = pc[d] /\ req'[d] = req[d]
    BY DEF TypeOK
<1>3. CallsOK'
    BY <1>2 DEF CallsOK, ProvedOK, Passed, KeyHeld, Taken
<1>4. KeyMutex'
    BY <1>2 DEF KeyMutex, KeyHeld
<1>5. Accounted' /\ OnlyProvedPublished'
    <2>1. Accounted'
        BY DEF Accounted, KeysDistinct, PublishedHasRow, CarriesLatest, PointsAtLatest
    <2>2. OnlyProvedPublished'
        BY DEF OnlyProvedPublished
    <2> QED
        BY <2>1, <2>2
<1> QED
    BY <1>1, <1>3, <1>4, <1>5

\* The publication rows after a commit.
LEMMA AppendFacts ==
    ASSUME NEW S, NEW s \in Seq(S), NEW e \in S
    PROVE  /\ Append(s, e) \in Seq(S)
           /\ DOMAIN s = 1 .. Len(s) /\ Len(s) \in Nat
           /\ DOMAIN Append(s, e) = 1 .. Len(s) + 1
           /\ \A n \in DOMAIN s : Append(s, e)[n] = s[n]
           /\ Append(s, e)[Len(s) + 1] = e
OBVIOUS

LEMMA LatestFacts ==
    ASSUME NEW s \in Seq(Requests), NEW e \in Requests, NEW vs,
           NEW n \in DOMAIN Append(s, e), IsLatest(Append(s, e), n, vs)
    PROVE  \/ n = Len(s) + 1 /\ e.version \in vs
           \/ n \in DOMAIN s /\ IsLatest(s, n, vs) /\ e.version \notin vs
<1> DEFINE t == Append(s, e)
<1>1. /\ DOMAIN s = 1 .. Len(s) /\ Len(s) \in Nat /\ DOMAIN t = 1 .. Len(s) + 1
      /\ \A m \in DOMAIN s : t[m] = s[m]
      /\ t[Len(s) + 1] = e
    BY AppendFacts
<1>2. CASE n = Len(s) + 1
    BY <1>1, <1>2 DEF IsLatest
<1>3. CASE n # Len(s) + 1
    <2>1. n \in DOMAIN s /\ Len(s) + 1 > n /\ Len(s) + 1 \in DOMAIN t
        BY <1>1, <1>3
    <2> HIDE DEF t
    <2>2. t[n].version \in vs /\ \A m \in DOMAIN t : m > n => t[m].version \notin vs
        BY DEF IsLatest, t
    <2>3. e.version \notin vs
        BY <1>1, <2>1, <2>2
    <2>4. IsLatest(s, n, vs)
        BY <1>1, <2>1, <2>2 DEF IsLatest
    <2> QED
        BY <2>1, <2>3, <2>4
<1> QED
    BY <1>2, <1>3

LEMMA CommitStep ==
    ASSUME IInv, NEW c \in Callers, Commit(c)
    PROVE  IInv'
<1> USE DEF IInv
<1> DEFINE r == req[c]
           top == Len(published) + 1
<1>1. /\ r \in Requests /\ ProvedOK(c) /\ ~Taken(r.id)
      /\ r.cert \in Certs /\ r.version \in Versions /\ ItemOf[r.version] \in Items
    BY RowsAssumption DEF Commit, CallsOK, KeyHeld, Requests
<1>2. /\ published' \in Seq(Requests) /\ published'[top] = r
      /\ DOMAIN published = 1 .. Len(published) /\ Len(published) \in Nat
      /\ DOMAIN published' = 1 .. top
      /\ \A n \in DOMAIN published : published'[n] = published[n]
    BY <1>1, AppendFacts DEF Commit, TypeOK
<1>3. \A n \in DOMAIN published' : n # top => n \in DOMAIN published /\ n < top
    BY <1>2
<1>4. TypeOK'
    BY <1>1, <1>2 DEF TypeOK, Commit, Return, Goto, Forwarded, Statuses
<1>5. /\ pc'[c] = "idle"
      /\ \A d \in Callers \ {c} : pc'[d] = pc[d] /\ req'[d] = req[d]
    BY DEF Commit, Return, Goto, TypeOK
<1>6. CallsOK'
    <2> SUFFICES ASSUME NEW d \in Callers \ {c}
                 PROVE  /\ pc[d] # "idle" => req[d] \in Requests
                        /\ ProvedOK(d)'
                        /\ KeyHeld(d) => ~Taken(req[d].id)'
        BY <1>5 DEF CallsOK, ProvedOK, Passed, KeyHeld
    <2>1. ProvedOK(d)'
        <3> SUFFICES ASSUME Passed(d)
                     PROVE  status'[req[d].version] # "retired"
            BY <1>5 DEF CallsOK, ProvedOK, Passed
        <3>1. req[d] \in Requests /\ status[req[d].version] # "retired"
            BY DEF CallsOK, ProvedOK, Passed
        <3> QED
            BY <1>1, <3>1 DEF Commit, TypeOK, Requests
    <2>2. KeyHeld(d) => ~Taken(req[d].id)'
        <3> SUFFICES ASSUME KeyHeld(d), NEW n \in DOMAIN published'
                     PROVE  published'[n].id # req[d].id
            BY <1>5 DEF Taken
        <3>1. ~Taken(req[d].id) /\ r.id # req[d].id
            BY DEF CallsOK, KeyMutex, KeyHeld, Commit
        <3> QED
            BY <1>2, <1>3, <3>1 DEF Taken
    <2> QED
        BY <2>1, <2>2 DEF CallsOK
<1>7. KeyMutex'
    BY <1>5 DEF KeyMutex, KeyHeld
<1>8. KeysDistinct'
    BY <1>1, <1>2, <1>3 DEF KeysDistinct, Accounted, Taken
<1>9. PublishedHasRow'
    <2> SUFFICES ASSUME NEW v \in Versions
                 PROVE  status'[v] = "published" <=>
                            \E n \in DOMAIN published' : published'[n].version = v
        BY DEF PublishedHasRow
    <2>1. CASE v = r.version
        <3>1. top \in DOMAIN published' /\ published'[top].version = v
            BY <1>2, <2>1
        <3>2. status'[v] = "published"
            BY <2>1 DEF Commit, TypeOK
        <3> QED
            BY <3>1, <3>2
    <2>2. CASE v # r.version
        <3>1. status'[v] = status[v]
            BY <2>2 DEF Commit, TypeOK
        <3>2. (\E n \in DOMAIN published : published[n].version = v)
                <=> \E n \in DOMAIN published' : published'[n].version = v
            BY <1>2, <1>3, <2>2
        <3> QED
            BY <3>1, <3>2 DEF PublishedHasRow, Accounted
    <2> QED
        BY <2>1, <2>2
<1>10. \A vs : \A n \in DOMAIN published' :
           IsLatest(published', n, vs) =>
               \/ n = top /\ r.version \in vs
               \/ n \in DOMAIN published /\ IsLatest(published, n, vs) /\ r.version \notin vs
    BY <1>1, <1>2, LatestFacts DEF Commit, TypeOK
<1>11. CarriesLatest'
    <2> SUFFICES ASSUME NEW n \in DOMAIN published', NEW v \in Versions,
                        IsLatest(published', n, {v})
                 PROVE  certified'[v] = {published'[n].cert}
        BY DEF CarriesLatest
    <2>1. CASE n = top /\ r.version = v
        BY <1>2, <2>1 DEF Commit, TypeOK
    <2>2. CASE n \in DOMAIN published /\ IsLatest(published, n, {v}) /\ r.version # v
        <3>1. certified[v] = {published[n].cert}
            BY <2>2, Zenon DEF CarriesLatest, Accounted
        <3>2. certified'[v] = certified[v] /\ published'[n] = published[n]
            BY <1>2, <2>2 DEF Commit, TypeOK
        <3> QED
            BY <3>1, <3>2
    <2> QED
        BY <1>10, <2>1, <2>2
<1>12. PointsAtLatest'
    <2> SUFFICES ASSUME NEW n \in DOMAIN published', NEW i \in Items,
                        IsLatest(published', n, VersionsOf(i))
                 PROVE  current'[i] = {published'[n].version}
        BY DEF PointsAtLatest
    <2>1. \/ n = top /\ ItemOf[r.version] = i
          \/ n \in DOMAIN published /\ IsLatest(published, n, VersionsOf(i)) /\ ItemOf[r.version] # i
        BY <1>1, <1>10 DEF VersionsOf
    <2>2. CASE n = top /\ ItemOf[r.version] = i
        BY <1>2, <2>2 DEF Commit, Forwarded, TypeOK
    <2>3. CASE n \in DOMAIN published /\ IsLatest(published, n, VersionsOf(i)) /\ ItemOf[r.version] # i
        BY <1>2, <2>3 DEF Commit, Forwarded, TypeOK, PointsAtLatest, Accounted
    <2> QED
        BY <2>1, <2>2, <2>3
<1>13. OnlyProvedPublished'
    <2>1. r.cert \in PublishCerts /\ BoundTo[r.cert] = r.version
          /\ r.version \in Addressed \cap Rendered
        BY <1>1 DEF ProvedOK, Passed, Commit
    <2> QED
        BY <1>2, <1>3, <2>1 DEF OnlyProvedPublished
<1> QED
    BY <1>4, <1>6, <1>7, <1>8, <1>9, <1>11, <1>12, <1>13 DEF Accounted

LEMMA NextInv == IInv /\ [Next]_vars => IInv'
<1> SUFFICES ASSUME IInv, [Next]_vars PROVE IInv'
    OBVIOUS
<1>1. CASE UNCHANGED vars
    <2>1. TypeOK' /\ OnlyProvedPublished'
        BY <1>1 DEF vars, IInv, TypeOK, OnlyProvedPublished
    <2>2. CallsOK' /\ KeyMutex'
        BY <1>1 DEF vars, IInv, CallsOK, KeyMutex, ProvedOK, Passed, KeyHeld, Taken
    <2>3. Accounted'
        BY <1>1 DEF vars, IInv, Accounted, KeysDistinct, PublishedHasRow, CarriesLatest,
                    PointsAtLatest
    <2> QED
        BY <2>1, <2>2, <2>3 DEF IInv
<1>2. ASSUME NEW c \in Callers, Begin(c) PROVE IInv'
    BY <1>2, CallerStep DEF Begin, Goto
<1>3. ASSUME NEW c \in Callers, Return(c), UNCHANGED tables PROVE IInv'
    BY <1>3, CallerStep DEF Return, Goto
<1>4. ASSUME NEW c \in Callers, pc[c] # "idle", UNCHANGED <<tables, req>>,
             NEW label \in {"mark", "insert", "forward", "end"}, Goto(c, label),
             ProvedOK(c) \/ Publishable(req[c]), Passed(c) \/ Publishable(req[c]),
             label \in {"forward", "end"} =>
               /\ ~Taken(req[c].id)
               /\ \A d \in Callers \ {c} : ~(KeyHeld(d) /\ req[d].id = req[c].id)
      PROVE  IInv'
    <2>1. req[c] \in Requests /\ req' = [req EXCEPT ![c] = req[c]]
        BY <1>4 DEF IInv, TypeOK, CallsOK
    <2>2. /\ req[c].cert \in PublishCerts /\ BoundTo[req[c].cert] = req[c].version
          /\ req[c].version \in Addressed \cap Rendered
          /\ status[req[c].version] # "retired"
        BY <1>4 DEF IInv, CallsOK, ProvedOK, Publishable, Verified, MayMove
    <2> QED
        BY <1>4, <2>1, <2>2, CallerStep DEF Goto
<1>5. ASSUME NEW c \in Callers, Read(c) PROVE IInv'
    BY <1>3, <1>4, <1>5 DEF Read
<1>6. ASSUME NEW c \in Callers, Mark(c) PROVE IInv'
    BY <1>4, <1>6 DEF Mark, IInv, CallsOK, Passed
<1>7. ASSUME NEW c \in Callers, Insert(c) PROVE IInv'
    BY <1>3, <1>4, <1>7 DEF Insert, IInv, CallsOK, Passed, KeyHeld, HoldsId
<1>8. ASSUME NEW c \in Callers, Forward(c) PROVE IInv'
    BY <1>4, <1>8 DEF Forward, IInv, CallsOK, Passed, KeyHeld, KeyMutex
<1>9. ASSUME NEW c \in Callers, Abort(c) PROVE IInv'
    BY <1>3, <1>9 DEF Abort
<1> QED
    BY <1>1, <1>2, <1>5, <1>6, <1>7, <1>8, <1>9, CommitStep DEF Next

THEOREM Invariant == Spec => []IInv
BY InitInv, NextInv, PTL DEF Spec

\* Every variable of Publication keeps its type, and every item points at a
\* version of its own.
THEOREM TypeCorrect == Spec => []TypeOK
<1>1. IInv => TypeOK
    BY DEF IInv
<1> QED
    BY <1>1, Invariant, PTL

\* Versions, items and publication rows always tell one story.
THEOREM AlwaysAccounted == Spec => []Accounted
<1>1. IInv => Accounted
    BY DEF IInv
<1> QED
    BY <1>1, Invariant, PTL

\* Every publication row stands for a version and a certificate that Publish
\* has proved, however late after the proof it was committed.
THEOREM NothingUnproved == Spec => []OnlyProvedPublished
<1>1. IInv => OnlyProvedPublished
    BY DEF IInv
<1> QED
    BY <1>1, Invariant, PTL

\* The unconditional UPDATE never moves a status backwards.
THEOREM OnlyForward == Spec => StatusMovesForward
<1>1. IInv /\ [Next]_vars =>
          [\A v \in Versions : status'[v] # status[v] => <<status[v], status'[v]>> \in Moves]_vars
    <2> SUFFICES ASSUME IInv, Next, NEW v \in Versions, status'[v] # status[v]
                 PROVE  <<status[v], status'[v]>> \in Moves
        BY DEF vars
    <2>1. PICK c \in Callers : Commit(c)
        BY DEF Next, Begin, Read, Mark, Insert, Forward, Abort, tables
    <2>2. status'[v] = "published" /\ v = req[c].version
        BY <2>1 DEF Commit, IInv, TypeOK
    <2>3. status[v] \in Statuses /\ status[v] # "retired"
        BY <2>1, <2>2 DEF Commit, IInv, TypeOK, CallsOK, ProvedOK, Passed
    <2> QED
        BY <2>2, <2>3 DEF Moves, Statuses
<1> QED
    BY <1>1, Invariant, PTL DEF Spec, StatusMovesForward
=============================================================================

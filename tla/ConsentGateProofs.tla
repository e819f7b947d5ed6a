------------------------- MODULE ConsentGateProofs --------------------------
(***************************************************************************)
(* Theorems about ConsentGate, for every number of callers and all bounds. *)
(* The invariant says what the one writer that holds the chain lock may    *)
(* rely on until it commits, and what the gate knows of the chain it read, *)
(* which only grows.                                                       *)
(***************************************************************************)
EXTENDS ConsentGate, TLAPS

\* One writer at a time is between its read of the top and its commit.
ChainMutex ==
    \A c, d \in Clients : HoldsChain(c) /\ HoldsChain(d) => c = d

\* What the chain says of its revocations, in the words of the code.
RevokesJudged ==
    \A i \in DOMAIN chain :
        chain[i].type = "revoke" => StateAt(i - 1, chain[i].at) = "granted"

\* What that writer is about to append.
AppendOK(c) ==
    /\ Len(chain) < MaxEvents
    /\ \E e \in Events :
          /\ draft[c] = <<e>>
          /\ e.version = Len(chain) + 1
          /\ e.type = "revoke" => StateAt(Len(chain), e.at) = "granted"

\* What a session about to be opened was judged on.
Justified(s) == /\ s.seen <= Len(chain) /\ s.began <= s.seen
                /\ StateAt(s.seen, s.when) = "granted"

OpenOK(c) == \E s \in Sessions : draft[c] = <<s>> /\ Justified(s)

CallOK(c) ==
    /\ pc[c] = "lock" => req[c].op \in {"grant", "revoke"}
    /\ pc[c] \in {"check", "judge"} => req[c].op = "start"
    /\ pc[c] = "judge" => req[c].began <= req[c].seen /\ req[c].seen <= Len(chain)
    /\ pc[c] = "check" => req[c].began <= Len(chain)
    /\ pc[c] = "end" => \/ HoldsChain(c) /\ AppendOK(c)
                        \/ req[c].op = "start" /\ OpenOK(c)

ClientOK == \A c \in Clients : CallOK(c)

SessionsJustified == \A i \in DOMAIN sessions : Justified(sessions[i])

IInv == /\ TypeOK /\ ChainMutex /\ ClientOK /\ VersionsCount
        /\ RevokesJudged /\ SessionsJustified

-----------------------------------------------------------------------------
LEMMA RequestFacts ==
    ASSUME NEW r \in Requests
    PROVE  /\ r.op = "grant" => r \in ToGrant
           /\ r.op = "revoke" => r \in ToRevoke
           /\ r.op = "start" => r \in ToStart
BY DEF Requests, ToGrant, ToRevoke, ToStart, Idle

LEMMA EventFacts ==
    ASSUME NEW e \in Events
    PROVE  e.type \in {"grant", "revoke"} /\ e.at \in Times /\ e.version \in Versions
BY DEF Events, Grants, Revokes

LEMMA InitInv == Init => IInv
<1> SUFFICES ASSUME Init PROVE IInv
    OBVIOUS
<1> USE DEF Init
<1>1. TypeOK
    BY BoundsAssumption DEF TypeOK, Requests, Times
<1>2. ChainMutex /\ ClientOK /\ VersionsCount /\ RevokesJudged /\ SessionsJustified
    BY DEF ChainMutex, HoldsChain, ClientOK, CallOK, VersionsCount, RevokesJudged,
           SessionsJustified
<1> QED
    BY <1>1, <1>2 DEF IInv

\* Steps that leave both tables and the clock alone, except for one client
\* that does not hold the chain afterwards.
LEMMA ClientStep ==
    ASSUME IInv, NEW c \in Clients, UNCHANGED <<chain, sessions, now>>,
           NEW r \in Requests, req' = [req EXCEPT ![c] = r],
           NEW label \in {"idle", "lock", "check", "judge"},
           pc' = [pc EXCEPT ![c] = label],
           draft' = draft \/ draft' = [draft EXCEPT ![c] = NoRow],
           label = "lock" => r.op \in {"grant", "revoke"},
           label \in {"check", "judge"} =>
               r.op = "start" /\ r.began <= r.seen /\ r.seen <= Len(chain)
    PROVE  IInv'
<1> USE DEF IInv
<1>1. TypeOK'
    BY DEF TypeOK
<1>2. /\ pc'[c] = label /\ req'[c] = r
      /\ \A d \in Clients \ {c} : /\ pc'[d] = pc[d] /\ req'[d] = req[d]
                                  /\ draft'[d] = draft[d]
    BY DEF TypeOK
<1>3. ChainMutex'
    BY <1>2 DEF ChainMutex, HoldsChain
<1>4. ClientOK'
    <2> SUFFICES ASSUME NEW d \in Clients
                 PROVE  CallOK(d)'
        BY DEF ClientOK
    <2>1. CASE d = c
        <3>1. label = "check" => r.began <= Len(chain)
            BY RequestFacts DEF ToStart, TypeOK
        <3> QED
            BY <1>2, <2>1, <3>1 DEF CallOK
    <2>2. CASE d # c
        BY <1>2, <2>2 DEF ClientOK, CallOK, HoldsChain, AppendOK, OpenOK, Justified, StateAt
    <2> QED
        BY <2>1, <2>2
<1>5. VersionsCount' /\ RevokesJudged' /\ SessionsJustified'
    BY DEF VersionsCount, RevokesJudged, SessionsJustified, Justified, StateAt
<1> QED
    BY <1>1, <1>3, <1>4, <1>5

LEMMA FinishInv ==
    ASSUME IInv, NEW c \in Clients, Finish(c), UNCHANGED <<chain, sessions, now>>
    PROVE  IInv'
<1>1. Idle \in Requests
    BY DEF Requests
<1> QED
    BY <1>1, ClientStep DEF Finish, Goto

LEMMA TickInv == IInv /\ Tick => IInv'
<1> SUFFICES ASSUME IInv, Tick PROVE IInv'
    OBVIOUS
<1> USE DEF IInv
<1>1. UNCHANGED <<chain, sessions, pc, req, draft>>
    BY DEF Tick
<1>2. TypeOK'
    BY <1>1, BoundsAssumption DEF Tick, TypeOK, Times
<1>3. ChainMutex' /\ VersionsCount' /\ RevokesJudged' /\ SessionsJustified'
    BY <1>1 DEF ChainMutex, HoldsChain, VersionsCount, RevokesJudged,
                SessionsJustified, Justified, StateAt
<1>4. ClientOK'
    BY <1>1 DEF ClientOK, CallOK, HoldsChain, AppendOK, OpenOK, Justified, StateAt
<1> QED
    BY <1>2, <1>3, <1>4

LEMMA BeginInv ==
    ASSUME IInv, NEW c \in Clients, BeginGrant(c) \/ BeginRevoke(c) \/ BeginStart(c)
    PROVE  IInv'
<1>1. Len(chain) \in 0 .. MaxEvents
    BY DEF IInv, TypeOK
<1>2. CASE BeginGrant(c)
    <2>1. PICK at \in Times, until \in Untils :
             Call(c, [op |-> "grant", at |-> at, until |-> until], "lock")
        BY <1>2 DEF BeginGrant
    <2>2. [op |-> "grant", at |-> at, until |-> until] \in Requests
        BY DEF Requests, ToGrant
    <2> QED
        BY <2>1, <2>2, ClientStep DEF Call, Goto
<1>3. CASE BeginRevoke(c)
    <2>1. PICK at \in Times : Call(c, [op |-> "revoke", at |-> at], "lock")
        BY <1>3 DEF BeginRevoke
    <2>2. [op |-> "revoke", at |-> at] \in Requests
        BY DEF Requests, ToRevoke
    <2> QED
        BY <2>1, <2>2, ClientStep DEF Call, Goto
<1>4. CASE BeginStart(c)
    <2> DEFINE r == [op |-> "start", began |-> Len(chain), seen |-> Len(chain)]
    <2>1. /\ r \in Requests /\ r.op = "start"
          /\ r.began <= r.seen /\ r.seen <= Len(chain)
        BY <1>1 DEF Requests, ToStart
    <2>2. Call(c, r, "check")
        BY <1>4 DEF BeginStart
    <2> HIDE DEF r
    <2> QED
        BY <2>1, <2>2, ClientStep DEF Call, Goto
<1> QED
    BY <1>2, <1>3, <1>4

LEMMA CheckInv == \A c \in Clients : IInv /\ Check(c) => IInv'
<1> SUFFICES ASSUME NEW c \in Clients, IInv, Check(c) PROVE IInv'
    OBVIOUS
<1> DEFINE r == [req[c] EXCEPT !.seen = Len(chain)]
<1>1. /\ pc[c] = "check" /\ req[c].op = "start" /\ req[c] \in Requests
      /\ Len(chain) \in 0 .. MaxEvents /\ req[c].began <= Len(chain)
    BY DEF Check, IInv, ClientOK, CallOK, TypeOK
<1>2. req[c] \in ToStart
    BY <1>1, RequestFacts
<1>3. /\ r \in ToStart /\ r.op = "start" /\ r.seen = Len(chain)
      /\ r.began = req[c].began
    BY <1>1, <1>2 DEF ToStart
<1>4. r \in Requests
    BY <1>3 DEF Requests
<1>5. req' = [req EXCEPT ![c] = r] /\ pc' = [pc EXCEPT ![c] = "judge"]
      /\ UNCHANGED <<chain, sessions, draft, now>>
    BY DEF Check, Goto
<1>6. r.began <= r.seen /\ r.seen <= Len(chain)
    BY <1>1, <1>3
<1> HIDE DEF r
<1> QED
    BY <1>3, <1>4, <1>5, <1>6, ClientStep

\* Inserting a row: the client now holds its locks until the commit.
LEMMA InsertInv ==
    ASSUME IInv, NEW c \in Clients, NEW new \in Events \cup Sessions,
           Insert(c, new), UNCHANGED <<chain, sessions, now>>,
           \/ /\ req[c].op \in {"grant", "revoke"} /\ AppendOK(c)'
              /\ \A d \in Clients \ {c} : ~HoldsChain(d)
           \/ req[c].op = "start" /\ OpenOK(c)'
    PROVE  IInv'
<1> USE DEF IInv
<1>1. /\ pc' = [pc EXCEPT ![c] = "end"] /\ req' = req
      /\ draft' = [draft EXCEPT ![c] = <<new>>]
    BY DEF Insert, Goto
<1>2. TypeOK'
    BY <1>1 DEF TypeOK
<1>3. /\ pc'[c] = "end"
      /\ \A d \in Clients \ {c} : pc'[d] = pc[d] /\ draft'[d] = draft[d]
    BY <1>1 DEF TypeOK
<1>4. ChainMutex'
    BY <1>1, <1>3 DEF ChainMutex, HoldsChain
<1>5. ClientOK'
    <2> SUFFICES ASSUME NEW d \in Clients PROVE CallOK(d)'
        BY DEF ClientOK
    <2>1. CASE d = c
        BY <1>1, <1>3, <2>1 DEF CallOK, HoldsChain
    <2>2. CASE d # c
        BY <1>1, <1>3, <2>2
        DEF ClientOK, CallOK, HoldsChain, AppendOK, OpenOK, Justified, StateAt
    <2> QED
        BY <2>1, <2>2
<1>6. VersionsCount' /\ RevokesJudged' /\ SessionsJustified'
    BY DEF VersionsCount, RevokesJudged, SessionsJustified, Justified, StateAt
<1> QED
    BY <1>2, <1>4, <1>5, <1>6

LEMMA AppendInv == \A c \in Clients : IInv /\ AppendEvent(c) => IInv'
<1> SUFFICES ASSUME NEW c \in Clients, IInv, AppendEvent(c) PROVE IInv'
    OBVIOUS
<1>1. /\ pc[c] = "lock" /\ UNCHANGED <<chain, sessions, now>>
      /\ \A d \in Clients \ {c} : ~HoldsChain(d)
      /\ Len(chain) < MaxEvents /\ req[c] \in Requests
      /\ chain \in Seq(Events) /\ Len(chain) \in Nat /\ draft \in [Clients -> {NoRow} \cup {<<r>> : r \in Events \cup Sessions}]
    BY DEF AppendEvent, IInv, TypeOK
<1>2. NewVersion = Len(chain) + 1 /\ NewVersion \in Versions
    <2>1. chain # <<>> => Len(chain) \in DOMAIN chain
        BY <1>1
    <2>2. chain = <<>> => Len(chain) = 0
        BY <1>1
    <2> QED
        BY <1>1, <2>1, <2>2, BoundsAssumption
        DEF NewVersion, Versions, IInv, VersionsCount
<1>3. ASSUME NEW e \in Events, Insert(c, e), e.version = NewVersion,
             req[c].op \in {"grant", "revoke"},
             e.type = "revoke" => StateAt(Len(chain), e.at) = "granted"
      PROVE  IInv'
    <2>1. AppendOK(c)'
        BY <1>1, <1>2, <1>3 DEF Insert, AppendOK, StateAt
    <2> QED
        BY <1>1, <1>3, <2>1, InsertInv
<1>4. CASE req[c].op = "grant" /\ Insert(c, [at |-> req[c].at, until |-> req[c].until,
                               type |-> "grant", version |-> NewVersion])
    <2> DEFINE e == [at |-> req[c].at, until |-> req[c].until,
                     type |-> "grant", version |-> NewVersion]
    <2>1. req[c] \in ToGrant
        BY <1>1, <1>4, RequestFacts
    <2>2. e \in Events /\ e.version = NewVersion /\ e.type # "revoke"
        BY <1>2, <2>1 DEF Events, Grants, ToGrant
    <2> HIDE DEF e
    <2> QED
        BY <1>3, <1>4, <2>2 DEF e
<1>5. CASE /\ req[c].op = "revoke" /\ MayRevoke(c)
           /\ Insert(c, [at |-> req[c].at, type |-> "revoke",
                         version |-> NewVersion])
    <2> DEFINE e == [at |-> req[c].at, type |-> "revoke", version |-> NewVersion]
    <2>1. req[c] \in ToRevoke
        BY <1>1, <1>5, RequestFacts
    <2>2. e \in Events /\ e.version = NewVersion /\ e.at = req[c].at
        BY <1>2, <2>1 DEF Events, Revokes, ToRevoke
    <2>3. Insert(c, e)
        BY <1>5
    <2> HIDE DEF e
    <2> QED
        BY <1>3, <1>5, <2>2, <2>3 DEF MayRevoke
<1>6. CASE Finish(c)
    BY <1>1, <1>6, FinishInv
<1> QED
    BY <1>4, <1>5, <1>6 DEF AppendEvent

LEMMA JudgeInv == \A c \in Clients : IInv /\ Judge(c) => IInv'
<1> SUFFICES ASSUME NEW c \in Clients, IInv, Judge(c) PROVE IInv'
    OBVIOUS
<1>1. /\ pc[c] = "judge" /\ req[c].op = "start" /\ req[c] \in Requests
      /\ req[c].began <= req[c].seen /\ req[c].seen <= Len(chain)
      /\ UNCHANGED <<chain, sessions, now>> /\ now \in Times
      /\ draft \in [Clients -> {NoRow} \cup {<<r>> : r \in Events \cup Sessions}]
    BY DEF Judge, IInv, ClientOK, CallOK, TypeOK
<1>2. req[c] \in ToStart
    BY <1>1, RequestFacts
<1>3. [began |-> req[c].began, seen |-> req[c].seen, when |-> now] \in Sessions
    BY <1>1, <1>2 DEF Sessions, ToStart
<1>4. PICK s \in Sessions :
         s = [began |-> req[c].began, seen |-> req[c].seen, when |-> now]
    BY <1>3
<1>5. s.seen = req[c].seen /\ s.when = now /\ s.began = req[c].began
    BY <1>4
<1>6. CASE StateAt(req[c].seen, now) = "granted" /\ Insert(c, s)
    <2>1. Justified(s)'
        BY <1>1, <1>5, <1>6 DEF Justified, StateAt
    <2>2. draft'[c] = <<s>>
        BY <1>1, <1>6 DEF Insert
    <2>3. OpenOK(c)'
        BY <1>5, <2>1, <2>2 DEF OpenOK
    <2> QED
        BY <1>1, <1>5, <1>6, <2>3, InsertInv
<1>7. CASE Finish(c)
    BY <1>1, <1>7, FinishInv
<1> QED
    BY <1>4, <1>6, <1>7 DEF Judge

\* Appending to the chain changes nothing that was judged on a part of it.
LEMMA Append1 ==
    ASSUME NEW s \in Seq(Events), NEW e \in Events
    PROVE  /\ s \o <<e>> \in Seq(Events)
           /\ Len(s \o <<e>>) = Len(s) + 1
           /\ (s \o <<e>>)[Len(s) + 1] = e
           /\ \A i \in 1 .. Len(s) : (s \o <<e>>)[i] = s[i]
OBVIOUS

LEMMA CommitInv == \A c \in Clients : IInv /\ Commit(c) => IInv'
<1> SUFFICES ASSUME NEW c \in Clients, IInv, Commit(c) PROVE IInv'
    OBVIOUS
<1> USE DEF IInv
<1>1. /\ pc[c] = "end" /\ Finish(c) /\ now' = now
      /\ pc' = [pc EXCEPT ![c] = "idle"] /\ req' = [req EXCEPT ![c] = Idle]
      /\ draft' = [draft EXCEPT ![c] = NoRow]
    BY DEF Commit, Finish, Goto
<1>2. /\ pc'[c] = "idle"
      /\ \A d \in Clients \ {c} : /\ pc'[d] = pc[d] /\ req'[d] = req[d]
                                  /\ draft'[d] = draft[d]
    BY <1>1 DEF TypeOK
<1>3. ChainMutex'
    BY <1>2 DEF ChainMutex, HoldsChain
<1>4. /\ pc' \in [Clients -> {"idle", "lock", "check", "judge", "end"}]
      /\ req' \in [Clients -> Requests] /\ now' \in Times
      /\ draft' \in [Clients -> {NoRow} \cup {<<r>> : r \in Events \cup Sessions}]
    BY <1>1 DEF TypeOK, Requests
<1>5. CASE req[c].op = "start"
    <2>1. OpenOK(c) /\ sessions' = sessions \o draft[c] /\ chain' = chain
        BY <1>1, <1>5 DEF Commit, ClientOK, CallOK, HoldsChain
    <2>2. PICK s \in Sessions : draft[c] = <<s>> /\ Justified(s)
        BY <2>1 DEF OpenOK
    <2>3. /\ sessions' \in Seq(Sessions) /\ Len(sessions') = Len(sessions) + 1
          /\ sessions'[Len(sessions) + 1] = s
          /\ \A i \in 1 .. Len(sessions) : sessions'[i] = sessions[i]
        BY <2>1, <2>2 DEF TypeOK
    <2>4. TypeOK'
        BY <1>4, <2>1, <2>3 DEF TypeOK
    <2>5. VersionsCount' /\ RevokesJudged'
        BY <2>1 DEF VersionsCount, RevokesJudged, StateAt
    <2>6. ASSUME NEW i \in DOMAIN sessions' PROVE Justified(sessions[i])'
        <3>1. sessions'[i] = s \/ (i \in DOMAIN sessions /\ sessions'[i] = sessions[i])
            BY <2>3 DEF TypeOK
        <3>2. Justified(sessions'[i])
            BY <2>2, <3>1 DEF SessionsJustified
        <3> QED
            BY <2>1, <3>2 DEF Justified, StateAt
    <2>7. SessionsJustified'
        BY <2>6 DEF SessionsJustified
    <2>8. ClientOK'
        BY <1>2, <2>1
        DEF ClientOK, CallOK, HoldsChain, AppendOK, OpenOK, Justified, StateAt
    <2> QED
        BY <1>3, <2>4, <2>5, <2>7, <2>8
<1>6. CASE req[c].op # "start"
    <2>1. HoldsChain(c) /\ AppendOK(c) /\ chain' = chain \o draft[c] /\ sessions' = sessions
        BY <1>1, <1>6 DEF Commit, ClientOK, CallOK
    <2>2. PICK e \in Events :
             /\ draft[c] = <<e>> /\ e.version = Len(chain) + 1
             /\ e.type = "revoke" => StateAt(Len(chain), e.at) = "granted"
        BY <2>1 DEF AppendOK
    <2>3. /\ chain' \in Seq(Events) /\ Len(chain') = Len(chain) + 1
          /\ chain'[Len(chain) + 1] = e /\ Len(chain) \in Nat
          /\ \A i \in 1 .. Len(chain) : chain'[i] = chain[i]
        BY <2>1, <2>2, Append1 DEF TypeOK
    <2>4. TypeOK'
        BY <1>4, <2>1, <2>3, BoundsAssumption DEF TypeOK, AppendOK
    <2>5. ASSUME NEW n \in 0 .. Len(chain), NEW at
          PROVE  StateAt(n, at)' = StateAt(n, at)
        BY <2>3 DEF StateAt
    <2>6. DOMAIN chain = 1 .. Len(chain) /\ DOMAIN chain' = 1 .. Len(chain) + 1
        BY <2>3 DEF TypeOK
    <2>7. VersionsCount'
        BY <2>2, <2>3, <2>6 DEF VersionsCount
    <2>8. RevokesJudged'
        <3> SUFFICES ASSUME NEW i \in DOMAIN chain', chain'[i].type = "revoke"
                     PROVE  StateAt(i - 1, chain[i].at)' = "granted"
            BY DEF RevokesJudged
        <3>1. i - 1 \in 0 .. Len(chain)
            BY <2>3, <2>6
        <3> DEFINE a == chain'[i].at
        <3>2. StateAt(i - 1, a) = "granted"
            <4>1. CASE i = Len(chain) + 1
                BY <2>2, <2>3, <4>1
            <4>2. CASE i # Len(chain) + 1
                BY <2>3, <2>6, <4>2 DEF RevokesJudged
            <4> QED
                BY <4>1, <4>2
        <3> QED
            BY <2>3, <3>1, <3>2 DEF StateAt
    <2>9. ASSUME NEW s \in Sessions, Justified(s) PROVE Justified(s)'
        <3>1. s.seen \in 0 .. Len(chain)
            BY <2>3, <2>9 DEF Justified, Sessions
        <3> QED
            BY <2>3, <2>9, <3>1 DEF Justified, StateAt
    <2>10. SessionsJustified'
        <3> SUFFICES ASSUME NEW i \in DOMAIN sessions'
                     PROVE  Justified(sessions[i])'
            BY DEF SessionsJustified
        <3>1. sessions[i] \in Sessions /\ Justified(sessions[i])
            BY <2>1 DEF SessionsJustified, TypeOK
        <3>2. PICK s \in Sessions : s = sessions[i]
            BY <3>1
        <3>3. Justified(s)'
            BY <2>9, <3>1, <3>2
        <3> QED
            BY <2>1, <3>2, <3>3 DEF Justified
    <2>11. ASSUME NEW d \in Clients PROVE CallOK(d)'
        <3>1. CASE d = c
            BY <1>2, <3>1 DEF CallOK, HoldsChain
        <3>2. CASE d # c
            <4>1. ~HoldsChain(d)
                BY <2>1, <3>2 DEF ChainMutex
            <4>2. CallOK(d) /\ pc'[d] = pc[d] /\ req'[d] = req[d] /\ draft'[d] = draft[d]
                BY <1>2, <3>2 DEF ClientOK
            <4>3. OpenOK(d) => OpenOK(d)'
                BY <2>9, <4>2 DEF OpenOK
            <4>4. /\ pc[d] \in {"check", "judge"} => req[d] \in ToStart
                  /\ Len(chain) <= Len(chain') /\ Len(chain') \in Nat
                BY <2>3, <4>2, RequestFacts DEF CallOK, TypeOK
            <4> QED
                BY <2>3, <4>1, <4>2, <4>3, <4>4 DEF CallOK, HoldsChain, ToStart
        <3> QED
            BY <3>1, <3>2
    <2>12. ClientOK'
        BY <2>11 DEF ClientOK
    <2> QED
        BY <1>3, <2>4, <2>7, <2>8, <2>10, <2>12
<1> QED
    BY <1>5, <1>6

LEMMA NextInv == IInv /\ [Next]_vars => IInv'
<1> SUFFICES ASSUME IInv, [Next]_vars PROVE IInv'
    OBVIOUS
<1>1. ASSUME NEW c \in Clients, Crash(c) PROVE IInv'
    BY <1>1, FinishInv DEF Crash
<1>2. CASE UNCHANGED vars
    BY <1>2
    DEF vars, IInv, TypeOK, ChainMutex, HoldsChain, ClientOK, CallOK, AppendOK, OpenOK,
        Justified, StateAt, VersionsCount, RevokesJudged, SessionsJustified
<1> QED
    BY <1>1, <1>2, TickInv, BeginInv, AppendInv, CheckInv, JudgeInv, CommitInv DEF Next

-----------------------------------------------------------------------------
\* The inductive invariant holds throughout.
THEOREM Invariant == Spec => []IInv
<1> QED
    BY InitInv, NextInv, PTL DEF Spec

\* Every variable keeps its type.
THEOREM TypeCorrect == Spec => []TypeOK
<1>1. IInv => TypeOK
    BY DEF IInv
<1> QED
    BY <1>1, Invariant, PTL

\* No two writers of a chain ever compute the same version: the unique index
\* never refuses anybody.
THEOREM VersionsAlwaysCount == Spec => []VersionsCount
<1>1. IInv => VersionsCount
    BY DEF IInv
<1> QED
    BY <1>1, Invariant, PTL

\* What the code calls granted is a grant whose window is open.
LEMMA GrantedInForce ==
    ASSUME TypeOK, NEW n \in 0 .. Len(chain), NEW at \in Times, StateAt(n, at) = "granted"
    PROVE  InForce(n, at)
<1>1. n # 0 /\ chain[n].type # "revoke" /\ ~(at >= chain[n].until)
    BY DEF StateAt
<1>2. chain[n] \in Events
    BY <1>1 DEF TypeOK
<1>3. chain[n].type = "grant" /\ chain[n].until \in Untils
    BY <1>1, <1>2 DEF Events, Grants, Revokes
<1> QED
    BY <1>1, <1>3, BoundsAssumption DEF InForce, Untils, Times

\* A revocation always ends a grant that was in force at its time.
THEOREM RevokesAlwaysEndGrants == Spec => []RevokesEndGrants
<1>1. IInv => RevokesEndGrants
    <2> SUFFICES ASSUME IInv, NEW i \in DOMAIN chain, chain[i].type = "revoke"
                 PROVE  InForce(i - 1, chain[i].at)
        BY DEF RevokesEndGrants
    <2>1. StateAt(i - 1, chain[i].at) = "granted"
        BY DEF IInv, RevokesJudged
    <2>2. i - 1 \in 0 .. Len(chain) /\ chain[i].at \in Times
        BY EventFacts DEF IInv, TypeOK
    <2> QED
        BY <2>1, <2>2, GrantedInForce DEF IInv
<1> QED
    BY <1>1, Invariant, PTL

\* No session is opened but on a consent in force while it was being opened.
THEOREM GateHonoured == Spec => []OpenedWithConsent
<1>1. IInv => OpenedWithConsent
    <2> SUFFICES ASSUME IInv, NEW i \in DOMAIN sessions
                 PROVE  /\ sessions[i].seen >= sessions[i].began
                        /\ InForce(sessions[i].seen, sessions[i].when)
        BY DEF OpenedWithConsent
    <2>1. sessions[i] \in Sessions /\ Justified(sessions[i])
        BY DEF IInv, TypeOK, SessionsJustified
    <2>2. sessions[i].seen \in 0 .. Len(chain) /\ sessions[i].when \in Times
        BY <2>1 DEF Justified, Sessions, IInv, TypeOK
    <2> QED
        BY <2>1, <2>2, GrantedInForce DEF Justified, Sessions, IInv
<1> QED
    BY <1>1, Invariant, PTL
=============================================================================

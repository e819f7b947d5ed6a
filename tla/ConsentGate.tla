---------------------------- MODULE ConsentGate -----------------------------
(***************************************************************************)
(* The parental-consent ledger of one student and one purpose              *)
(* (core/compliance/compliance.go, pg.go, db/queries/consent.sql) and the  *)
(* gate it is for Service.Start (core/session/service.go).                 *)
(*                                                                         *)
(* A grant or a revocation is one transaction that locks the chain, reads  *)
(* its top and appends the next version.  Opening a session is one         *)
(* transaction that reads the top without the lock, judges it by a clock   *)
(* read afterwards, and inserts the session.                               *)
(***************************************************************************)
EXTENDS Integers, Sequences

CONSTANTS
    Clients,      \* concurrent callers
    MaxTime,      \* bound of the model's clock
    MaxEvents,    \* bound on the length of the chain
    MaxSessions   \* bound on the sessions opened

ASSUME BoundsAssumption ==
          /\ Clients # {}
          /\ MaxTime \in Nat /\ MaxEvents \in Nat /\ MaxSessions \in Nat

VARIABLES
    chain,     \* parental_consent rows, in commit order
    sessions,  \* practice_session rows of the student, in commit order
    pc, req,   \* where each client is inside its call, and what it asks for
    draft,     \* the row each client has inserted and not yet committed
    now        \* the clock

vars == <<chain, sessions, pc, req, draft, now>>

Times    == 0 .. MaxTime
Versions == 1 .. MaxEvents
Untils   == 1 .. MaxTime + 1

Idle  == [op |-> "none"]
NoRow == <<>>

\* at is the time of the event to record, until the end of the grant; began
\* and seen are the lengths of the chain when a start began and as it read it.
ToGrant  == [op : {"grant"}, at : Times, until : Untils]
ToRevoke == [op : {"revoke"}, at : Times]
ToStart  == [op : {"start"}, began : 0 .. MaxEvents, seen : 0 .. MaxEvents]
Requests == {Idle} \cup ToGrant \cup ToRevoke \cup ToStart

\* until is valid_until, which only a grant has.
Grants  == [at : Times, until : Untils, type : {"grant"}, version : Versions]
Revokes == [at : Times, type : {"revoke"}, version : Versions]
Events  == Grants \cup Revokes

\* What the session was opened on, and when its consent was judged.
Sessions == [began : 0 .. MaxEvents, seen : 0 .. MaxEvents, when : Times]

\* Mutation: the boundary still counts as in force.
StateAtLateExpiry(n, at) ==
    IF n = 0                         THEN "missing"
    ELSE IF chain[n].type = "revoke" THEN "revoked"
    ELSE IF at > chain[n].until      THEN "expired" ELSE "granted"

\* The state of a chain whose n first events are visible, judged at a time:
\* the boundary itself counts as expired, and valid_from is not looked at.
StateAt(n, at) ==
    IF n = 0                         THEN "missing"
    ELSE IF chain[n].type = "revoke" THEN "revoked"
    ELSE IF at >= chain[n].until     THEN "expired"
    ELSE "granted"

\* Mutation: a revocation does not take the advisory lock.
HoldsChainGrantsOnly(c) == pc[c] = "end" /\ req[c].op = "grant"

HoldsChain(c) == pc[c] = "end" /\ req[c].op \in {"grant", "revoke"}

-----------------------------------------------------------------------------
Init ==
    /\ chain = <<>>
    /\ sessions = <<>>
    /\ pc = [c \in Clients |-> "idle"]
    /\ req = [c \in Clients |-> Idle]
    /\ draft = [c \in Clients |-> NoRow]
    /\ now = 0

Goto(c, label) == pc' = [pc EXCEPT ![c] = label]

\* The call of c is over, answered or refused.
Finish(c) ==
    /\ Goto(c, "idle")
    /\ req' = [req EXCEPT ![c] = Idle]
    /\ draft' = [draft EXCEPT ![c] = NoRow]

Insert(c, new) ==
    /\ Goto(c, "end")
    /\ draft' = [draft EXCEPT ![c] = <<new>>]
    /\ UNCHANGED req

Tick == /\ now < MaxTime
        /\ now' = now + 1
        /\ UNCHANGED <<chain, sessions, pc, req, draft>>

Call(c, request, label) ==
    /\ pc[c] = "idle"
    /\ Goto(c, label)
    /\ req' = [req EXCEPT ![c] = request]
    /\ UNCHANGED <<chain, sessions, draft, now>>

\* Both writers fix the time of their event before they wait for the lock: the
\* one the caller gives or else the clock's, so any.  The window of a grant
\* only has to end after its start, which the caller chooses too.
BeginGrant(c) ==
    \E at \in Times, until \in Untils :
        Call(c, [op |-> "grant", at |-> at, until |-> until], "lock")

BeginRevoke(c) == \E at \in Times : Call(c, [op |-> "revoke", at |-> at], "lock")

BeginStart(c) ==
    Call(c, [op |-> "start", began |-> Len(chain), seen |-> Len(chain)], "check")

\* The version after the top of the chain.
NewVersion == IF chain = <<>> THEN 1 ELSE chain[Len(chain)].version + 1

\* Mutation: a revocation only needs some event before it.
MayRevokeAnything(c) == chain # <<>>

\* A revocation needs a grant that is in force at its time.
MayRevoke(c) == StateAt(Len(chain), req[c].at) = "granted"

\* LockConsentChain, GetLatestConsentEvent, InsertConsentEvent.
AppendEvent(c) ==
    /\ pc[c] = "lock"
    /\ \A d \in Clients \ {c} : ~HoldsChain(d)
    /\ Len(chain) < MaxEvents
    /\ \/ /\ req[c].op = "grant"
          /\ Insert(c, [at |-> req[c].at, until |-> req[c].until,
                        type |-> "grant", version |-> NewVersion])
       \/ /\ req[c].op = "revoke" /\ MayRevoke(c)
          /\ Insert(c, [at |-> req[c].at, type |-> "revoke",
                        version |-> NewVersion])
       \/ /\ req[c].op = "revoke" /\ ~MayRevoke(c)
          /\ Finish(c)
    /\ UNCHANGED <<chain, sessions, now>>

\* CheckConsent: a plain read of the top, and the clock read after it.
Check(c) ==
    /\ pc[c] = "check"
    /\ Goto(c, "judge")
    /\ req' = [req EXCEPT ![c].seen = Len(chain)]
    /\ UNCHANGED <<chain, sessions, draft, now>>

\* RequireGranted, then the insert of a fresh session.
Judge(c) ==
    /\ pc[c] = "judge"
    /\ Len(sessions) < MaxSessions
    /\ \/ /\ StateAt(req[c].seen, now) = "granted"
          /\ Insert(c, [began |-> req[c].began, seen |-> req[c].seen,
                        when |-> now])
       \/ /\ StateAt(req[c].seen, now) # "granted"
          /\ Finish(c)
    /\ UNCHANGED <<chain, sessions, now>>

Commit(c) ==
    /\ pc[c] = "end"
    /\ IF req[c].op = "start"
       THEN /\ Len(sessions) < MaxSessions
            /\ sessions' = sessions \o draft[c] /\ UNCHANGED chain
       ELSE chain' = chain \o draft[c] /\ UNCHANGED sessions
    /\ Finish(c)
    /\ UNCHANGED now

\* The connection or the process dies before the commit.
Crash(c) ==
    /\ pc[c] # "idle"
    /\ Finish(c)
    /\ UNCHANGED <<chain, sessions, now>>

Next == Tick \/ \E c \in Clients :
                   \/ BeginGrant(c) \/ BeginRevoke(c) \/ BeginStart(c)
                   \/ AppendEvent(c) \/ Check(c) \/ Judge(c)
                   \/ Commit(c) \/ Crash(c)

Spec == Init /\ [][Next]_vars

-----------------------------------------------------------------------------
\* Every variable keeps its type.
TypeOK ==
    /\ chain \in Seq(Events) /\ Len(chain) <= MaxEvents
    /\ sessions \in Seq(Sessions)
    /\ pc \in [Clients -> {"idle", "lock", "check", "judge", "end"}]
    /\ req \in [Clients -> Requests]
    /\ draft \in [Clients -> {NoRow} \cup {<<r>> : r \in Events \cup Sessions}]
    /\ now \in Times

\* pg.go: the unique index on the version is only the last line of defence.
\* No two writers ever compute the same version, even on an empty chain, so
\* the versions count the events and the index refuses nobody.
VersionsCount == \A i \in DOMAIN chain : chain[i].version = i

\* The n-th event is a grant whose window is still open at a time.
InForce(n, at) == n > 0 /\ chain[n].type = "grant" /\ at < chain[n].until

\* A revocation ends a grant that was in force at its time: it is never the
\* first event, never follows another revocation, never an expired grant.
RevokesEndGrants ==
    \A i \in DOMAIN chain :
        chain[i].type = "revoke" => InForce(i - 1, chain[i].at)

\* A session is opened only on a consent that was in force while it was being
\* opened: the gate judged a top that was no older than the call itself, so
\* whoever starts after a revocation was acknowledged is refused.
OpenedWithConsent ==
    \A i \in DOMAIN sessions :
        LET s == sessions[i]
        IN  s.seen >= s.began /\ InForce(s.seen, s.when)
=============================================================================

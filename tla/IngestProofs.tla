---------------------------- MODULE IngestProofs ----------------------------
(***************************************************************************)
(* Theorems about Ingest, for any number of workers, runs, files and       *)
(* lines.  The invariant says what a worker may rely on between the insert *)
(* of an item and its commit: it alone holds the key of the item, which no *)
(* committed row has; and that a run never meets the name of one of its    *)
(* own lines in the tables before it has dealt with that line.             *)
(***************************************************************************)
EXTENDS Ingest, TLAPS

Open == Writing \cup {"trail"}

\* The worker's place: its line exists, and its run has been started.
PlaceOK(c) == /\ Len(outcomes[c]) <= Len(batch[c])
              /\ pc[c] \in Open => Number(c) <= Len(batch[c])
              /\ pc[c] # "idle" => runs[c] \in 1 .. MaxRuns

\* The keys of its transaction are those of its line.
HeldOK(c) == /\ pc[c] \in Writing =>
                    held[c] \subseteq {TemplateOf[Line(c)], SpecOf[Line(c)], ItemOf[Line(c)]}
             /\ pc[c] = "commit" => ItemOf[Line(c)] \in held[c] \ rows

ReportOK(c) == /\ pc[c] = "done" => Len(outcomes[c]) = Len(batch[c])
               /\ \A n \in DOMAIN outcomes[c] : Reported(c, n)

LocalOK(c) == PlaceOK(c) /\ HeldOK(c) /\ ReportOK(c)

\* An item is entered by one worker at a time.
ItemMutex == \A c, d \in Workers :
                 /\ pc[c] = "commit" /\ pc[d] = "commit"
                 /\ ItemOf[Line(c)] = ItemOf[Line(d)]
                 => c = d

\* The name of a line that its worker has dealt with, or given up.
Past(by) == \/ by[2] < runs[by[1]]
            \/ /\ by[2] = runs[by[1]]
               /\ by[3] <= Len(outcomes[by[1]]) \/ pc[by[1]] = "aborted"

NamesPast == /\ \A e \in ledger : Past(e.by)
             /\ \A e \in trail : Past(e.by)

IInv == /\ TypeOK /\ EnteredOnce /\ ItemMutex /\ NamesPast
        /\ \A c \in Workers : LocalOK(c)

-----------------------------------------------------------------------------
LEMMA InitInv == Init => IInv
<1> SUFFICES ASSUME Init PROVE IInv
    OBVIOUS
<1> USE LinesAssumption DEF Init
<1>1. TypeOK
    BY DEF TypeOK, Ended, Writing
<1>2. EnteredOnce /\ ItemMutex /\ NamesPast
    BY DEF EnteredOnce, ItemMutex, NamesPast
<1>3. ASSUME NEW c \in Workers PROVE LocalOK(c)
    <2>1. batch[c] \in Seq(Lines) /\ outcomes[c] = <<>> /\ pc[c] = "idle"
        OBVIOUS
    <2>2. QED
        BY <2>1 DEF LocalOK, PlaceOK, HeldOK, ReportOK, Open, Writing
<1>4. QED
    BY <1>1, <1>2, <1>3 DEF IInv

\* A worker in a transaction is at a line of its file, and has a name for it.
LEMMA AtLine ==
    ASSUME IInv, NEW c \in Workers, pc[c] \in Open
    PROVE  /\ Line(c) \in Lines
           /\ Origin(c) \in Origins
           /\ Number(c) \in Nat \ {0}
           /\ runs[c] \in Nat
<1>1. batch[c] \in Seq(Lines) /\ outcomes[c] \in Seq(Outcomes) /\ runs[c] \in Nat
    BY LinesAssumption DEF IInv, TypeOK
<1>2. Number(c) \in Nat \ {0}
    BY <1>1 DEF Number
<1>3. Number(c) \in 1 .. Len(batch[c]) /\ runs[c] \in 1 .. MaxRuns
    BY <1>2, <1>1 DEF IInv, LocalOK, PlaceOK, Open, Writing
<1>4. QED
    BY <1>1, <1>2, <1>3 DEF Line, Origin, Origins

-----------------------------------------------------------------------------
\* What a step of c may do to the tables.
Written(c) == \/ UNCHANGED tables
              \/ pc[c] = "commit" /\ Enter(c)
              \/ pc[c] = "trail" /\ Record(c)

\* They grow, under the name of the worker's line and by the keys it holds.
Grown(c) == /\ rows \subseteq rows' /\ ledger \subseteq ledger' /\ trail \subseteq trail'
            /\ \A e \in ledger' \ ledger : e.by = Origin(c) /\ pc[c] \in Open
            /\ \A e \in trail' \ trail : e.by = Origin(c) /\ pc[c] \in Open
            /\ \A k \in rows' \ rows : k \in held[c] /\ pc[c] = "commit"

LEMMA TableStep ==
    ASSUME IInv, NEW c \in Workers, Written(c)
    PROVE  /\ Grown(c)
           /\ EnteredOnce'
           /\ rows' \subseteq Keys
           /\ ledger' \subseteq [item : Keys, by : Origins]
           /\ trail' \subseteq [by : Origins, check : Validators]
<1>0. /\ rows \subseteq Keys
      /\ ledger \subseteq [item : Keys, by : Origins]
      /\ trail \subseteq [by : Origins, check : Validators]
      /\ held[c] \subseteq Keys
    BY DEF IInv, TypeOK
<1>1. CASE UNCHANGED tables
    BY <1>0, <1>1 DEF tables, Grown, EnteredOnce, IInv
<1>2. CASE pc[c] = "commit" /\ Enter(c)
    <2> DEFINE i == ItemOf[Line(c)]
               e == [item |-> i, by |-> Origin(c)]
    <2>1. Line(c) \in Lines /\ Origin(c) \in Origins
        BY <1>2, AtLine DEF Open, Writing
    <2>2. /\ rows' = rows \cup held[c] /\ ledger' = ledger \cup {e} /\ trail' = trail
        BY <1>2 DEF Enter
    <2>3. i \in held[c] /\ i \notin rows
        BY <1>2 DEF IInv, LocalOK, HeldOK
    <2>4. ASSUME NEW l \in Lines, ItemOf[l] \in held[c] PROVE ItemOf[l] = i
        BY <2>1, <2>4, <1>2, LinesAssumption DEF IInv, LocalOK, HeldOK, Writing
    <2>5. \A f \in ledger : f.item # i
        BY <2>1, <2>3 DEF IInv, EnteredOnce
    <2>6. \A f, g \in ledger' : f.item = g.item => f = g
        BY <2>2, <2>5 DEF IInv, EnteredOnce
    <2>7. ASSUME NEW l \in Lines
          PROVE  ItemOf[l] \in rows' <=> \E f \in ledger' : f.item = ItemOf[l]
        <3>1. ItemOf[l] \in rows <=> \E f \in ledger : f.item = ItemOf[l]
            BY DEF IInv, EnteredOnce
        <3>2. CASE ItemOf[l] = i
            <4>1. e \in ledger' /\ e.item = i
                BY <2>2
            <4>2. QED
                BY <2>2, <2>3, <3>2, <4>1
        <3>3. CASE ItemOf[l] # i
            <4>1. ItemOf[l] \in rows' <=> ItemOf[l] \in rows
                BY <2>2, <2>4, <3>3
            <4>2. \A f \in ledger' : f.item = ItemOf[l] => f \in ledger
                BY <2>2, <3>3
            <4>3. QED
                BY <2>2, <3>1, <4>1, <4>2
        <3>4. QED
            BY <3>2, <3>3
    <2>8. EnteredOnce'
        BY <2>6, <2>7 DEF EnteredOnce
    <2>9. Grown(c)
        BY <1>2, <2>2 DEF Grown, Open, Writing
    <2>10. e \in [item : Keys, by : Origins]
        BY <2>1 DEF Keys
    <2>11. QED
        BY <1>0, <2>2, <2>8, <2>9, <2>10
<1>3. CASE pc[c] = "trail" /\ Record(c)
    <2>1. Line(c) \in Lines /\ Origin(c) \in Origins
        BY <1>3, AtLine DEF Open
    <2>2. Failures(c) \subseteq [by : Origins, check : Validators]
        BY <2>1, LinesAssumption DEF Failures
    <2>3. trail' = trail \cup Failures(c) /\ rows' = rows /\ ledger' = ledger
        BY <1>3 DEF Record
    <2>4. \A e \in Failures(c) : e.by = Origin(c)
        BY DEF Failures
    <2>5. Grown(c)
        BY <1>3, <2>3, <2>4 DEF Grown, Open
    <2>6. EnteredOnce'
        BY <2>3 DEF IInv, EnteredOnce
    <2>7. QED
        BY <1>0, <2>2, <2>3, <2>5, <2>6
<1>4. QED
    BY <1>1, <1>2, <1>3 DEF Written

\* A counted outcome stays true, since its name is past.
LEMMA ReportedStays ==
    ASSUME IInv, NEW c \in Workers, NEW d \in Workers, Grown(c),
           NEW n \in DOMAIN outcomes[d], batch'[d] = batch[d], runs'[d] = runs[d],
           n \in DOMAIN outcomes'[d], outcomes'[d][n] = outcomes[d][n]
    PROVE  Reported(d, n)'
<1> DEFINE by == <<d, runs[d], n>>
<1>1. Reported(d, n)
    BY DEF IInv, LocalOK, ReportOK
<1>2. outcomes[d] \in Seq(Outcomes) /\ n \in 1 .. Len(outcomes[d])
    BY DEF IInv, TypeOK
<1>3. pc[c] \in Open => by # Origin(c)
    BY <1>2 DEF Origin, Number
<1>4. {f \in trail' : f.by = by} = {f \in trail : f.by = by}
    BY <1>3 DEF Grown
<1>5. QED
    BY <1>1, <1>4 DEF Reported, Grown

\* The workers that take no step lose nothing.
LEMMA OthersStay ==
    ASSUME IInv, NEW c \in Workers, Grown(c), NEW d \in Workers, d # c,
           pc'[d] = pc[d], batch'[d] = batch[d], outcomes'[d] = outcomes[d],
           held'[d] = held[d], runs'[d] = runs[d]
    PROVE  LocalOK(d)'
<1>1. LocalOK(d)
    BY DEF IInv
<1>2. PlaceOK(d)'
    BY <1>1 DEF LocalOK, PlaceOK, Number
<1>3. HeldOK(d)'
    <2>1. Line(d)' = Line(d)
        BY DEF Line, Number
    <2>2. ASSUME pc[d] = "commit", ItemOf[Line(d)] \in rows' PROVE FALSE
        <3> DEFINE i == ItemOf[Line(d)]
        <3>1. i \notin rows
            BY <1>1, <2>2 DEF LocalOK, HeldOK
        <3>2. i \in held[c] /\ pc[c] = "commit"
            BY <3>1, <2>2 DEF Grown
        <3>3. Line(c) \in Lines /\ Line(d) \in Lines
            BY <2>2, <3>2, AtLine DEF Open, Writing
        <3>4. i = ItemOf[Line(c)]
            BY <3>2, <3>3, LinesAssumption DEF IInv, LocalOK, HeldOK, Writing
        <3>5. QED
            BY <2>2, <3>2, <3>4 DEF IInv, ItemMutex
    <2>3. QED
        BY <1>1, <2>1, <2>2 DEF LocalOK, HeldOK
<1>4. ReportOK(d)'
    BY <1>1, ReportedStays DEF LocalOK, ReportOK
<1>5. QED
    BY <1>2, <1>3, <1>4 DEF LocalOK

-----------------------------------------------------------------------------
LocalsTyped ==
    /\ pc \in [Workers -> Ended \cup Writing \cup {"line", "trail"}]
    /\ batch \in [Workers -> Batches]
    /\ outcomes \in [Workers -> Seq(Outcomes)]
    /\ held \in [Workers -> SUBSET Keys]
    /\ \A c \in Workers : held[c] # {} => pc[c] \in Writing
    /\ runs \in [Workers -> 0 .. MaxRuns]

Untouched(d) == /\ pc'[d] = pc[d] /\ batch'[d] = batch[d] /\ outcomes'[d] = outcomes[d]
                /\ held'[d] = held[d] /\ runs'[d] = runs[d]

\* A name that is past stays so, and what a step writes is past after it.
NamesPass(c) ==
    \/ runs'[c] > runs[c] /\ UNCHANGED tables
    \/ /\ runs'[c] = runs[c]
       /\ Len(outcomes'[c]) >= Len(outcomes[c])
       /\ pc[c] = "aborted" => pc'[c] = "aborted"
       /\ UNCHANGED tables \/ Len(outcomes'[c]) = Number(c) \/ pc'[c] = "aborted"

\* What is left to show of a step of c: its own part of the invariant.
LEMMA StepInv ==
    ASSUME IInv, NEW c \in Workers, Written(c), LocalsTyped',
           \A d \in Workers \ {c} : Untouched(d),
           LocalOK(c)', NamesPass(c),
           pc'[c] = "commit" => \A d \in Workers \ {c} :
               pc[d] = "commit" => ItemOf[Line(d)] # ItemOf[Line(c)']
    PROVE  IInv'
<1>1. Grown(c) /\ EnteredOnce' /\ TypeOK'
    BY TableStep DEF TypeOK, LocalsTyped
<1>2. \A d \in Workers : LocalOK(d)'
    BY <1>1, OthersStay DEF Untouched
<1>3. ItemMutex'
    <2>1. \A d \in Workers \ {c} : Line(d)' = Line(d) /\ pc'[d] = pc[d]
        BY DEF Line, Number, Untouched
    <2>2. QED
        BY <2>1 DEF ItemMutex, IInv
<1>4. NamesPast'
    <2>1. ASSUME NEW by \in Origins, Past(by) PROVE Past(by)'
        <3>1. by[1] \in Workers /\ by[2] \in Nat /\ by[3] \in Nat
            BY DEF Origins
        <3>2. CASE by[1] = c
            <4>1. runs[c] \in Nat /\ runs'[c] \in Nat /\ outcomes[c] \in Seq(Outcomes)
                  /\ outcomes'[c] \in Seq(Outcomes)
                BY DEF IInv, TypeOK, LocalsTyped
            <4>2. QED
                BY <2>1, <3>1, <3>2, <4>1 DEF Past, NamesPass
        <3>3. CASE by[1] # c
            BY <2>1, <3>1, <3>3 DEF Past, Untouched
        <3>4. QED
            BY <3>2, <3>3
    <2>2. ASSUME ~UNCHANGED tables, pc[c] \in Open, NEW by, by = Origin(c)
          PROVE  Past(by)'
        <3>1. runs'[c] = runs[c] /\ (Len(outcomes'[c]) = Number(c) \/ pc'[c] = "aborted")
            BY <2>2 DEF NamesPass
        <3>2. Number(c) \in Nat
            BY <2>2, AtLine
        <3>3. QED
            <4>1. by[1] = c /\ by[2] = runs[c] /\ by[3] = Number(c)
                BY <2>2 DEF Origin
            <4>2. QED
                BY <3>1, <3>2, <4>1 DEF Past
    <2>3. /\ \A e \in ledger : e.by \in Origins /\ Past(e.by)
          /\ \A e \in trail : e.by \in Origins /\ Past(e.by)
        BY DEF IInv, TypeOK, NamesPast
    <2>4. /\ \A e \in ledger' : Past(e.by)'
          /\ \A e \in trail' : Past(e.by)'
        <3>1. ASSUME NEW e \in ledger' PROVE Past(e.by)'
            <4>1. CASE e \in ledger
                BY <2>1, <2>3, <4>1
            <4>2. CASE e \notin ledger
                <5>1. e.by = Origin(c) /\ pc[c] \in Open /\ ~UNCHANGED tables
                    BY <1>1, <4>2 DEF Grown, tables
                <5>2. QED
                    BY <5>1, <2>2
            <4>3. QED
                BY <4>1, <4>2
        <3>2. ASSUME NEW e \in trail' PROVE Past(e.by)'
            <4>1. CASE e \in trail
                BY <2>1, <2>3, <4>1
            <4>2. CASE e \notin trail
                <5>1. e.by = Origin(c) /\ pc[c] \in Open /\ ~UNCHANGED tables
                    BY <1>1, <4>2 DEF Grown, tables
                <5>2. QED
                    BY <5>1, <2>2
            <4>3. QED
                BY <4>1, <4>2
        <3>3. QED
            BY <3>1, <3>2
    <2>5. QED
        BY <2>4 DEF NamesPast
<1>5. QED
    BY <1>1, <1>2, <1>3, <1>4 DEF IInv

\* A line is counted, and its outcome is what the tables hold.
LEMMA CountStep ==
    ASSUME IInv, NEW c \in Workers, NEW o \in Outcomes, pc[c] \in Open \cup {"line"},
           Number(c) <= Len(batch[c]), Written(c), Count(c, o),
           NEW m, m = Number(c), Reported(c, m)'
    PROVE  IInv'
<1>1. /\ outcomes[c] \in Seq(Outcomes) /\ batch[c] \in Seq(Lines)
      /\ pc \in [Workers -> Ended \cup Writing \cup {"line", "trail"}]
      /\ outcomes \in [Workers -> Seq(Outcomes)] /\ held \in [Workers -> SUBSET Keys]
      /\ runs[c] \in Nat
    BY LinesAssumption DEF IInv, TypeOK
<1>2. /\ pc'[c] = "line" /\ outcomes'[c] = Append(outcomes[c], o) /\ held'[c] = {}
      /\ runs' = runs /\ batch' = batch
    BY <1>1 DEF Count, Goto
<1>3. m \in Nat /\ Len(outcomes'[c]) = m /\ m = Len(outcomes[c]) + 1
    BY <1>1, <1>2 DEF Number
<1>4. LocalsTyped'
    BY <1>1 DEF Count, Goto, LocalsTyped, IInv, TypeOK
<1>5. \A d \in Workers \ {c} : Untouched(d)
    BY <1>1 DEF Count, Goto, Untouched
<1>6. NamesPass(c)
    BY <1>1, <1>2, <1>3 DEF NamesPass, Open, Writing
<1>7. ReportOK(c)'
    <2>1. ASSUME NEW n \in DOMAIN outcomes'[c] PROVE Reported(c, n)'
        <3>1. CASE n = m
            BY <3>1
        <3>2. CASE n # m
            <4>1. n \in DOMAIN outcomes[c] /\ outcomes'[c][n] = outcomes[c][n]
                BY <1>1, <1>2, <1>3, <3>2
            <4>2. QED
                BY <4>1, <1>2, TableStep, ReportedStays
        <3>3. QED
            BY <3>1, <3>2
    <2>2. QED
        BY <1>2, <2>1 DEF ReportOK
<1>8. PlaceOK(c)' /\ HeldOK(c)'
    BY <1>2, <1>3 DEF PlaceOK, HeldOK, Open, Writing, IInv, LocalOK, Ended
<1>9. QED
    BY <1>2, <1>4, <1>5, <1>6, <1>7, <1>8, StepInv DEF LocalOK

\* A worker goes on within its line, or ends.
LEMMA GoStep ==
    ASSUME IInv, NEW c \in Workers, Written(c), UNCHANGED <<batch, outcomes, runs>>,
           pc[c] \notin Ended,
           pc' = [pc EXCEPT ![c] = pc'[c]],
           pc'[c] \in {"template", "trail", "spec", "item", "commit", "done", "aborted"},
           pc'[c] = "aborted" \/ UNCHANGED tables,
           pc'[c] \in Open => Number(c) <= Len(batch[c]),
           pc'[c] = "done" => Number(c) > Len(batch[c]),
           held'[c] \in SUBSET Keys,
           held' = [held EXCEPT ![c] = held'[c]],
           held'[c] # {} => /\ pc'[c] \in Writing
                            /\ held'[c] \subseteq
                                   {TemplateOf[Line(c)], SpecOf[Line(c)], ItemOf[Line(c)]},
           pc'[c] = "commit" => /\ ItemOf[Line(c)] \in held'[c] \ rows
                                /\ Free(c, ItemOf[Line(c)])
    PROVE  IInv'
<1>1. /\ outcomes[c] \in Seq(Outcomes) /\ batch[c] \in Seq(Lines)
      /\ pc \in [Workers -> Ended \cup Writing \cup {"line", "trail"}]
      /\ held \in [Workers -> SUBSET Keys] /\ runs[c] \in Nat
    BY LinesAssumption DEF IInv, TypeOK
<1>2. Line(c)' = Line(c) /\ Number(c)' = Number(c)
    BY DEF Line, Number
<1>3. LocalsTyped'
    BY <1>1 DEF LocalsTyped, IInv, TypeOK, Ended, Writing
<1>4. \A d \in Workers \ {c} : Untouched(d)
    BY <1>1 DEF Untouched
<1>5. NamesPass(c)
    BY <1>1, <1>2 DEF NamesPass, Ended
<1>6. PlaceOK(c)'
    BY <1>1, <1>2 DEF PlaceOK, IInv, LocalOK, Ended
<1>7. HeldOK(c)'
    BY <1>2 DEF HeldOK, tables
<1>8. ReportOK(c)'
    <2>1. \A n \in DOMAIN outcomes[c] : Reported(c, n)'
        BY TableStep, ReportedStays
    <2>2. pc'[c] = "done" => Len(outcomes[c]) = Len(batch[c])
        BY <1>1 DEF Number, IInv, LocalOK, PlaceOK
    <2>3. QED
        BY <1>2, <2>1, <2>2 DEF ReportOK
<1>9. ASSUME pc'[c] = "commit", NEW d \in Workers \ {c}, pc[d] = "commit"
      PROVE  ItemOf[Line(d)] # ItemOf[Line(c)']
    BY <1>2, <1>9 DEF Free, IInv, LocalOK, HeldOK
<1>10. QED
    BY <1>2, <1>3, <1>4, <1>5, <1>6, <1>7, <1>8, <1>9, StepInv DEF LocalOK

-----------------------------------------------------------------------------
LEMMA NextInv == IInv /\ [Next]_vars => IInv'
<1> SUFFICES ASSUME IInv, [Next]_vars PROVE IInv'
    OBVIOUS
<1>0. CASE UNCHANGED vars
    <2>1. TypeOK'
        BY <1>0 DEF vars, IInv, TypeOK
    <2>2. EnteredOnce' /\ ItemMutex' /\ NamesPast'
        BY <1>0 DEF vars, IInv, EnteredOnce, ItemMutex, NamesPast, Past, Line, Number
    <2>3. ASSUME NEW c \in Workers PROVE LocalOK(c)'
        <3>1. PlaceOK(c)' /\ HeldOK(c)'
            BY <1>0 DEF vars, IInv, LocalOK, PlaceOK, HeldOK, Line, Number
        <3>2. \A n \in DOMAIN outcomes[c] : Reported(c, n)'
            <4>1. \A n \in DOMAIN outcomes[c] : Reported(c, n)
                BY DEF IInv, LocalOK, ReportOK
            <4>2. QED
                BY <1>0, <4>1 DEF vars, Reported
        <3>3. QED
            BY <1>0, <3>1, <3>2 DEF vars, IInv, LocalOK, ReportOK
    <2>4. QED
        BY <2>1, <2>2, <2>3 DEF IInv
<1>1. ASSUME NEW c \in Workers, Start(c) PROVE IInv'
    <2>1. /\ pc \in [Workers -> Ended \cup Writing \cup {"line", "trail"}]
          /\ batch \in [Workers -> Batches] /\ outcomes \in [Workers -> Seq(Outcomes)]
          /\ held \in [Workers -> SUBSET Keys] /\ runs \in [Workers -> 0 .. MaxRuns]
          /\ MaxRuns \in Nat
        BY LinesAssumption DEF IInv, TypeOK
    <2>2. PICK b \in Batches : batch' = [batch EXCEPT ![c] = b]
        BY <1>1 DEF Start
    <2>3. /\ pc'[c] = "line" /\ batch'[c] = b /\ outcomes'[c] = <<>>
          /\ runs'[c] = runs[c] + 1 /\ UNCHANGED <<tables, held>>
        BY <1>1, <2>1, <2>2 DEF Start, Goto
    <2>4. runs'[c] \in 1 .. MaxRuns
        BY <1>1, <2>1, <2>3 DEF Start
    <2>5. held[c] = {}
        BY <1>1 DEF Start, IInv, TypeOK, Ended, Writing
    <2>6. LocalsTyped'
        BY <1>1, <2>1, <2>2, <2>3, <2>4, <2>5 DEF Start, Goto, LocalsTyped, IInv, TypeOK, Ended
    <2>7. \A d \in Workers \ {c} : Untouched(d)
        BY <1>1, <2>1, <2>2 DEF Start, Goto, Untouched
    <2>8. LocalOK(c)'
        <3>1. b \in Seq(Lines)
            BY LinesAssumption
        <3>2. QED
            BY <2>3, <2>4, <3>1 DEF LocalOK, PlaceOK, HeldOK, ReportOK, Open, Writing
    <2>9. NamesPass(c)
        BY <2>1, <2>3 DEF NamesPass
    <2>10. QED
        BY <2>3, <2>6, <2>7, <2>8, <2>9, StepInv DEF Written
<1>2. ASSUME NEW c \in Workers, Take(c) PROVE IInv'
    <2>1. CASE Line(c) \notin Readable /\ Count(c, "decode-error")
        <3>1. Number(c) \in DOMAIN outcomes'[c] /\ outcomes'[c][Number(c)] = "decode-error"
            BY <2>1 DEF Count, Number, IInv, TypeOK
        <3>2. \A m : m = Number(c) => Reported(c, m)'
            BY <2>1, <3>1 DEF Count, Line, Reported, IInv, TypeOK
        <3>3. QED
            BY <1>2, <2>1, <3>2, CountStep DEF Take, Outcomes, Written
    <2>2. CASE /\ Goto(c, IF FailedBy[Line(c)] = {} THEN "template" ELSE "trail")
               /\ UNCHANGED <<batch, outcomes, held, runs>>
        <3>1. held' = [held EXCEPT ![c] = {}] /\ held'[c] = {}
            BY <1>2, <2>2 DEF Take, IInv, TypeOK, Writing
        <3>2. pc' = [pc EXCEPT ![c] = pc'[c]] /\ pc'[c] \in {"template", "trail"}
            BY <1>2, <2>2 DEF Take, Goto, IInv, TypeOK
        <3>3. QED
            BY <1>2, <2>2, <3>1, <3>2, GoStep DEF Take, Written, Ended, Open
    <2>3. QED
        BY <1>2, <2>1, <2>2 DEF Take
<1>3. ASSUME NEW c \in Workers, Finish(c) PROVE IInv'
    <2>1. held' = [held EXCEPT ![c] = {}] /\ held'[c] = {}
        BY <1>3 DEF Finish, IInv, TypeOK, Writing
    <2>2. pc' = [pc EXCEPT ![c] = pc'[c]] /\ pc'[c] = "done"
        BY <1>3 DEF Finish, Goto, IInv, TypeOK
    <2>3. QED
        BY <1>3, <2>1, <2>2, GoStep DEF Finish, Written, Ended, Open, Writing
<1>4. ASSUME NEW c \in Workers, NEW label \in {"spec", "item"},
             pc[c] \in {"template", "spec"},
             NEW key \in {TemplateOf[Line(c)], SpecOf[Line(c)]}, Upsert(c, key, label)
      PROVE  IInv'
    <2>1. Line(c) \in Lines /\ Number(c) <= Len(batch[c])
        BY <1>4, AtLine DEF Open, Writing, IInv, LocalOK, PlaceOK
    <2> DEFINE H == held[c] \cup ({key} \ rows)
    <2>2. H \in SUBSET Keys /\ held' = [held EXCEPT ![c] = H] /\ held'[c] = H
        BY <1>4, <2>1 DEF Upsert, Keys, IInv, TypeOK
    <2>3. pc' = [pc EXCEPT ![c] = pc'[c]] /\ pc'[c] = label
        BY <1>4 DEF Upsert, Goto, IInv, TypeOK
    <2>4. H \subseteq {TemplateOf[Line(c)], SpecOf[Line(c)], ItemOf[Line(c)]}
        BY <1>4 DEF IInv, LocalOK, HeldOK, Writing
    <2> HIDE DEF H
    <2>5. QED
        BY <1>4, <2>1, <2>2, <2>4, <2>3, GoStep DEF Upsert, Written, Ended, Writing
<1>5. ASSUME NEW c \in Workers, InsertItem(c) PROVE IInv'
    <2>1. /\ Line(c) \in Lines /\ Origin(c) \in Origins /\ Number(c) <= Len(batch[c])
          /\ Number(c) \in Nat
        BY <1>5, AtLine DEF InsertItem, Open, Writing, IInv, LocalOK, PlaceOK
    <2>2. CASE Duplicate(c) /\ Count(c, "already-ingested")
        <3>1. outcomes'[c][Number(c)] = "already-ingested" /\ batch' = batch /\ runs' = runs
            BY <2>2 DEF Count, Number, IInv, TypeOK
        <3>2. PICK e \in ledger : e.item = ItemOf[Line(c)]
            BY <2>1, <2>2 DEF Duplicate, IInv, EnteredOnce
        <3>3. ~Past(Origin(c))
            BY <1>5, <2>1 DEF InsertItem, Past, Origin, Number, IInv, TypeOK
        <3>4. e.by # Origin(c)
            BY <3>3 DEF IInv, NamesPast
        <3>5. ledger' = ledger
            BY <1>5 DEF InsertItem, tables
        <3>6. \A m : m = Number(c) => Reported(c, m)'
            BY <3>1, <3>2, <3>4, <3>5 DEF Reported, Origin, Line
        <3>7. QED
            BY <1>5, <2>1, <2>2, <3>6, CountStep
               DEF InsertItem, Outcomes, Written, Open, Writing
    <2>3. CASE /\ ~Duplicate(c)
               /\ held' = [held EXCEPT ![c] = @ \cup {ItemOf[Line(c)]}]
               /\ Goto(c, "commit") /\ UNCHANGED <<batch, outcomes, runs>>
        <3> DEFINE H == held[c] \cup {ItemOf[Line(c)]}
        <3>1. H \in SUBSET Keys /\ held' = [held EXCEPT ![c] = H] /\ held'[c] = H
            BY <2>1, <2>3 DEF Keys, IInv, TypeOK
        <3>2. pc' = [pc EXCEPT ![c] = pc'[c]] /\ pc'[c] = "commit"
            BY <2>3 DEF Goto, IInv, TypeOK
        <3>3. /\ H \subseteq {TemplateOf[Line(c)], SpecOf[Line(c)], ItemOf[Line(c)]}
              /\ ItemOf[Line(c)] \in H \ rows
            BY <1>5, <2>3 DEF InsertItem, Duplicate, IInv, LocalOK, HeldOK, Writing
        <3> HIDE DEF H
        <3>4. QED
            BY <1>5, <2>1, <2>3, <3>1, <3>3, <3>2, GoStep DEF InsertItem, Written, Ended, Writing
    <2>4. QED
        BY <1>5, <2>2, <2>3 DEF InsertItem
<1>6. ASSUME NEW c \in Workers, Commit(c) PROVE IInv'
    <2>1. Number(c) <= Len(batch[c])
        BY <1>6 DEF Commit, Open, Writing, IInv, LocalOK, PlaceOK
    <2>2. outcomes'[c][Number(c)] = "accepted" /\ batch' = batch /\ runs' = runs
        BY <1>6 DEF Commit, Count, Number, IInv, TypeOK
    <2>3. \A m : m = Number(c) => Reported(c, m)'
        BY <1>6, <2>2 DEF Commit, Enter, Reported, Origin, Line
    <2>4. QED
        BY <1>6, <2>1, <2>3, CountStep DEF Commit, Outcomes, Written, Open, Writing
<1>7. ASSUME NEW c \in Workers, RecordFailures(c) PROVE IInv'
    <2>1. /\ Number(c) <= Len(batch[c]) /\ Line(c) \in Lines /\ Number(c) \in Nat
          /\ runs[c] \in Nat
        BY <1>7, AtLine DEF RecordFailures, Open, Writing, IInv, LocalOK, PlaceOK
    <2>2. outcomes'[c][Number(c)] = "rejected" /\ batch' = batch /\ runs' = runs
        BY <1>7 DEF RecordFailures, Count, Number, IInv, TypeOK
    <2>3. ~Past(Origin(c))
        BY <1>7, <2>1 DEF RecordFailures, Past, Origin, Number, IInv, TypeOK
    <2>4. trail' = trail \cup Failures(c)
        BY <1>7 DEF RecordFailures, Record
    <2>5. {f \in trail' : f.by = Origin(c)} = Failures(c)
        BY <2>3, <2>4 DEF Failures, IInv, NamesPast
    <2>6. {e.check : e \in Failures(c)} = FailedBy[Line(c)]
        <3>1. ASSUME NEW v \in FailedBy[Line(c)] PROVE \E e \in Failures(c) : e.check = v
            <4>1. [by |-> Origin(c), check |-> v] \in Failures(c)
                BY DEF Failures
            <4>2. QED
                BY <4>1
        <3>2. \A e \in Failures(c) : e.check \in FailedBy[Line(c)]
            BY DEF Failures
        <3>3. QED
            BY <3>1, <3>2
    <2>7. \A m : m = Number(c) => Reported(c, m)'
        BY <2>2, <2>5, <2>6 DEF Reported, Origin, Line
    <2>8. QED
        BY <1>7, <2>1, <2>7, CountStep DEF RecordFailures, Outcomes, Written, Open
<1>8. ASSUME NEW c \in Workers, Abort(c) PROVE IInv'
    <2>1. held' = [held EXCEPT ![c] = {}] /\ held'[c] = {}
        BY <1>8 DEF Abort, IInv, TypeOK
    <2>2. pc' = [pc EXCEPT ![c] = pc'[c]] /\ pc'[c] = "aborted"
        BY <1>8 DEF Abort, Goto, IInv, TypeOK
    <2>3. QED
        BY <1>8, <2>1, <2>2, GoStep DEF Abort, Written, Open, Writing
<1>9. QED
    BY <1>0, <1>1, <1>2, <1>3, <1>4, <1>5, <1>6, <1>7, <1>8
       DEF Next, Step, UpsertTemplate, UpsertSpec

-----------------------------------------------------------------------------
THEOREM Invariant == Spec => []IInv
<1>1. QED
    BY InitInv, NextInv, PTL DEF Spec

\* Every variable keeps its type, whatever runs overlap, abort or repeat.
THEOREM TypeCorrect == Spec => []TypeOK
<1>1. IInv => TypeOK
    BY DEF IInv
<1>2. QED
    BY <1>1, Invariant, PTL

\* writeLedger and isDuplicate: over all runs an item is published at most
\* once, and exactly if its row exists.
THEOREM ItemsEnteredOnce == Spec => []EnteredOnce
<1>1. IInv => EnteredOnce
    BY DEF IInv
<1>2. QED
    BY <1>1, Invariant, PTL

\* runBatch: what the summary of a run counts is what the tables hold.
THEOREM ReportsTrue == Spec => []ReportTrue
<1>1. IInv => ReportTrue
    BY DEF IInv, LocalOK, ReportOK, ReportTrue
<1>2. QED
    BY <1>1, Invariant, PTL
=============================================================================

---------------------------- MODULE Measurement -----------------------------
(***************************************************************************)
(* Papers by a table of specifications: the table and its two validators   *)
(* (assembly/spec_table.py and the trigger of migration 0030), the search  *)
(* (assembly/solver/cpsat_solver.py), the paper and its compliance         *)
(* (assembly/measurement_paper.py), and what grade bands and listening put *)
(* over a paper (gradeband_constraints.py, listening_overlay.py). Rates    *)
(* are in tenths.                                                          *)
(***************************************************************************)
EXTENDS Integers, Sequences, FiniteSets, SequencesExt, FiniteSetsExt

CONSTANT NONE

Levels == {"remember", "understand", "apply", "analyze", "evaluate", "create"}

-----------------------------------------------------------------------------
\* The numbers of a list added up, from the first.
Total(s) == LET sum[n \in 0..Len(s)] == IF n = 0 THEN 0 ELSE sum[n - 1] + s[n] IN sum[Len(s)]

(* SpecCell and SpecTable: every cell in its domains, none twice, a total. *)
CellFits(c) ==
  /\ c.content # "" /\ c.level \in Levels /\ c.count >= 0
  /\ {c.low, c.high} \subseteq 0..10 /\ c.low <= c.high
TotalCount(cells) == Total([i \in DOMAIN cells |-> cells[i].count])
TableFits(cells) ==
  /\ cells # <<>> /\ \A i \in DOMAIN cells : CellFits(cells[i])
  /\ TotalCount(cells) > 0
  /\ \A i, j \in DOMAIN cells : i # j => cells[i].content # cells[j].content \/ cells[i].level # cells[j].level
KnownContent(cells, codes) == \A i \in DOMAIN cells : cells[i].content \in codes

(* validate_spec_table_cells: every cell against the keys of the cells     *)
(* before it; a key joins content and level by a slash.                    *)
Key(c) == c.content \o "/" \o c.level
Refused(c, keys) ==
  \/ c.content = "" \/ c.level \notin Levels \/ c.count < 0
  \/ c.low < 0 \/ c.low > 10 \/ c.high < 0 \/ c.high > 10 \/ c.low > c.high
  \/ Key(c) \in keys
TriggerAdmits(cells) ==
  /\ cells # <<>> /\ \A i \in DOMAIN cells : ~Refused(cells[i], {Key(cells[j]) : j \in 1..(i - 1)})
  /\ TotalCount(cells) > 0

-----------------------------------------------------------------------------
(* The search. A candidate: [id, kps, level, p, group, template]; the      *)
(* model gives every chosen candidate one cell that it matches, fills each *)
(* cell exactly, and takes the members of a group all or not at all.       *)
Matches(c, cell) == cell.content \in c.kps /\ c.level = cell.level /\ cell.low <= c.p /\ c.p <= cell.high
Excluded(c, shown) == c.id \in shown.items \/ (c.template # NONE /\ c.template \in shown.templates)

\* Mutation: the members of a group may be taken apart.
SameGroupNever(c, d) == FALSE

SameGroup(c, d) == c.group # NONE /\ c.group = d.group

Places(cells, pool, shown) ==
  {f \in [pool -> 0..Len(cells)] :
     /\ \A c \in pool : f[c] # 0 => Matches(c, cells[f[c]]) /\ ~Excluded(c, shown)
     /\ \A k \in DOMAIN cells : Cardinality({c \in pool : f[c] = k}) = cells[k].count
     /\ \A c, d \in pool : SameGroup(c, d) => (f[c] = 0 <=> f[d] = 0)}

(* _analyze_infeasibility: the cells with too few candidates of their own, *)
(* otherwise that something conflicts.                                     *)
EligibleCount(cell, pool, shown) == Cardinality({c \in pool : ~Excluded(c, shown) /\ Matches(c, cell)})
Infeasible(cells, pool, shown) ==
  LET short == {k \in DOMAIN cells : EligibleCount(cells[k], pool, shown) < cells[k].count}
  IN [kind |-> "infeasible", conflicts |-> IF short # {} THEN short ELSE {0}]

(* solve: any placement the solver finds, each cell in pool order; without *)
(* one, or when its time is up before it has found one, the analysis.      *)
Solve(cells, pool, shown, limited) ==
  LET found == Places(cells, pool, shown)
  IN {[kind |-> "solution", cell |-> f] : f \in found}
     \cup (IF found = {} \/ limited THEN {Infeasible(cells, pool, shown)} ELSE {})

(* build_measurement_paper and verify_compliance. *)
BuildPaper(cells, solution) ==
  [k \in DOMAIN cells |-> [cell |-> cells[k], items |-> {c \in DOMAIN solution.cell : solution.cell[c] = k}]]
Violations(paper, cells) ==
  {<<"count_mismatch", k>> : k \in {k \in DOMAIN cells : Cardinality(paper[k].items) # cells[k].count}}
  \cup {<<"difficulty_out_of_range", k>> :
          k \in {k \in DOMAIN cells : \E c \in paper[k].items : c.p < cells[k].low \/ c.p > cells[k].high}}

-----------------------------------------------------------------------------
(* apply_listening_overlay: the share of listening items, rounded inwards  *)
(* and at least one, of the maximum of the paper; too few are a conflict.  *)
ShareOf(total, ratio) ==
  LET least == (total * ratio[1] + 9) \div 10
      low == IF least < 1 THEN 1 ELSE least
      high == (total * ratio[2]) \div 10
  IN <<low, IF high < low THEN low ELSE high>>
Overlay(total, available, ratio) ==
  LET share == ShareOf(total, ratio)
  IN IF available < share[1] \/ share[2] > total THEN NONE ELSE share

Kept(items, X) == FlattenSeq([i \in DOMAIN items |-> IF items[i] \in X THEN <<items[i]>> ELSE <<>>])

\* Mutation: what was heard stays where it stands.
ListeningFirstLast(items, heard) == Kept(items, Range(items) \ heard) \o Kept(items, heard)

(* mark_listening_testlet: the listening items come first, in their order, *)
(* as one group; a number outside of the share is refused.                 *)
ListeningFirst(items, heard) == Kept(items, heard) \o Kept(items, Range(items) \ heard)
MarkListening(items, heard, share) ==
  LET n == Len(Kept(items, heard))
  IN IF n < share[1] \/ n > share[2] THEN NONE ELSE ListeningFirst(items, heard)

(* The limits of a grade band, each of them replaceable by an overlay.     *)
BandLimits == [L |-> [items |-> 10, minutes |-> 15, form |-> "game"],
               M |-> [items |-> 20, minutes |-> 60, form |-> "standard"],
               H |-> [items |-> 30, minutes |-> 60, form |-> "standard"]]
Resolved(band, over) ==
  [f \in {"items", "minutes", "form"} |-> IF f \in DOMAIN over THEN over[f] ELSE BandLimits[band][f]]
BandConflicts(spec, band, over) ==
  {f \in {"items", "minutes"} : spec[f] # NONE /\ spec[f] > Resolved(band, over)[f]}

-----------------------------------------------------------------------------
(* What the class refuses the trigger refuses, and the other way round.    *)
ValidatorsAgree(cells) == TableFits(cells) <=> TriggerAdmits(cells)

(* A solution makes a paper that complies, of whole groups and of items    *)
(* that were not shown; a cell that is reported as short makes every       *)
(* search fail, and without a limit of time so does any report.            *)
SearchHonest(cells, pool, shown, limited, s) ==
  IF s.kind = "solution"
  THEN LET paper == BuildPaper(cells, s)  chosen == UNION {paper[k].items : k \in DOMAIN paper} IN
       /\ Violations(paper, cells) = {}
       /\ Cardinality(chosen) = TotalCount(cells)
       /\ \A c \in chosen : ~Excluded(c, shown) /\ \A d \in pool : d.group = c.group /\ c.group # NONE => d \in chosen
  ELSE /\ s.conflicts # {0} => Places(cells, pool, shown) = {}
       /\ ~limited => Places(cells, pool, shown) = {}

(* Listening comes first and nothing is lost; a share that is promised for *)
(* the maximum of a paper is a real one, unless the paper is too short.    *)
ListeningLegal(items, heard, total, ratio, share, marked) ==
  /\ share # NONE => 1 <= share[1] /\ share[1] <= share[2] /\ share[2] <= total
                     /\ (share[1] < share[2] => 10 * share[2] <= ratio[2] * total)
  /\ marked # NONE =>
       /\ Range(marked) = Range(items) /\ Len(marked) = Len(items)
       /\ \A i, j \in DOMAIN marked : i < j /\ marked[j] \in heard => marked[i] \in heard
=============================================================================

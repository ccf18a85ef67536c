---------------------------- MODULE ReleaseCounts ----------------------------
(***************************************************************************)
(* Analyzer.SummarizeReleaseCounts of internal/analysis/service.go, from   *)
(* the sets of its categories, one list after the other.  Years are        *)
(* calendar years.                                                         *)
(***************************************************************************)
EXTENDS Adapter

\* year_from, by default 2001.
YearFrom(options) == IF options.yearFrom <= 0 THEN 2001 ELSE options.yearFrom

\* The tests of the loop: a set that fails one is not counted.
Counted(set, options) ==
  /\ options.includeSupplemental \/ ~set.IsSupplemental
  /\ set.PublishedYear >= YearFrom(options)
  /\ options.yearTo # Nil => set.PublishedYear <= options.yearTo

\* Mutant of Tally: only years after the last one seen move maxYear, and the
\* first is not one of them.
TallyLateMax(summary, set) ==
  [counts  |-> [summary.counts EXCEPT ![set.PublishedYear] = @ + 1],
   total   |-> summary.total + 1,
   maxYear |-> IF summary.total > 0 /\ set.PublishedYear > summary.maxYear
               THEN set.PublishedYear ELSE summary.maxYear]

\* counts[year]++, total++ and maxYear.
Tally(summary, set) ==
  [counts  |-> [summary.counts EXCEPT ![set.PublishedYear] = @ + 1],
   total   |-> summary.total + 1,
   maxYear |-> IF set.PublishedYear > summary.maxYear
               THEN set.PublishedYear ELSE summary.maxYear]

\* The loop over the sets: what it has counted after the first n of them.
Tallies(sets, options) ==
  LET years == {sets[i].PublishedYear : i \in DOMAIN sets}
      tally[n \in 0..Len(sets)] ==
        IF n = 0
        THEN [counts |-> [y \in years |-> 0], total |-> 0, maxYear |-> YearFrom(options)]
        ELSE IF Counted(sets[n], options) THEN Tally(tally[n - 1], sets[n]) ELSE tally[n - 1]
  IN  tally

SummarizeReleaseCounts(sets, options) ==
  LET from  == YearFrom(options)
      tally == Tallies(sets, options)[Len(sets)]
      to    == IF options.yearTo # Nil THEN options.yearTo ELSE tally.maxYear
  IN  IF options.yearTo # Nil /\ options.yearTo < from THEN Error
      ELSE [From |-> from, To |-> to, TotalSets |-> tally.total,
            CountsByYear |->
              [y \in from..to |-> IF y \in DOMAIN tally.counts THEN tally.counts[y] ELSE 0]]
=============================================================================

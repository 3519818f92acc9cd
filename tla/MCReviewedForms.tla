---------------------------- MODULE MCReviewedForms ----------------------------
EXTENDS ReviewedForms, TLC

Scene(ops, open, reviews) == [ops |-> ops, open |-> open, reviews |-> reviews]

\* The SFC form and the exemptions; the declaration with every operation, one after the other; and
\* with a request of the State or of PMU beside another one, no two of them of PMU.
AllScenes ==
  {Scene({}, 0, 0), Scene({"save", "submit", "pmu", "mohua"}, 1, 1), Scene({"save", "submit", "pmu"}, 2, 1)}

\* The declaration alone, two PMU reviewers.
TwoReviewers == {Scene({"submit", "pmu"}, 2, 2)}

NoFcScene == {Scene({}, 0, 0)}

EulbScene(ops, open, max) == [ops |-> ops, open |-> open, max |-> max]

EulbOps == {"draft", "upload", "revalidate", "delete", "edit", "submit", "post", "pmu"}

NoEulbScene == {EulbScene({}, 0, 0)}

\* The elected bodies at rest; with every operation, one after the other; and two at a time.
AllEulbScenes == {EulbScene({}, 0, 0), EulbScene(EulbOps, 1, 5), EulbScene(EulbOps, 2, 3)}

\* The elected bodies alone, no two requests at a time.
OneByOne == {EulbScene({"upload", "submit", "pmu"}, 1, 3)}

DfScene(ops, open, max, files) == [ops |-> ops, open |-> open, max |-> max, files |-> files]

DfOps == DfOp \cup {"grant"}

Cell(amount, fault) == [there |-> TRUE, amount |-> amount, fault |-> fault]

\* Files of plain rows; of plain rows but one; of plain rows and one more; and the one that is whole.
PlainCells == [DfUlb -> {NoDfCell, Cell(1, "none")}]

PlainFiles == {[cells |-> c, extra |-> "none"] : c \in PlainCells}

FaultyCells ==
  UNION {{c \in [DfUlb -> {Cell(1, "none"), odd}] : Cardinality({u \in DfUlb : c[u] = odd}) = 1} :
           odd \in {Cell(3, "none"), Cell(1, "split"), Cell(1, "number"), Cell(1, "name")}}

AllFiles ==
  PlainFiles
    \cup {[cells |-> c, extra |-> "none"] : c \in FaultyCells}
    \cup {[cells |-> c, extra |-> x] : c \in PlainCells, x \in {"new", "repeated"}}

WholeFile == {[cells |-> [u \in DfUlb |-> Cell(1, "none")], extra |-> "none"]}

NoDfScene == {DfScene({}, 0, 0, {})}

\* The devolution formula at rest; every operation and every file, one request after the other; every
\* operation, two at a time; what the State does to a dataset, two at a time; a long sequence of the
\* State, PMU and the grant; and decisions of PMU beside what the State does.
AllDfScenes ==
  {DfScene({}, 0, 0, {}),
   DfScene(DfOps, 1, 3, AllFiles),
   DfScene(DfOps, 2, 3, PlainFiles),
   DfScene({"upload", "edit", "submit", "revalidate", "delete"}, 2, 4, WholeFile),
   DfScene({"upload", "edit", "submit", "draft", "reject", "grant"}, 1, 5, WholeFile),
   DfScene({"upload", "submit", "reject", "draft", "delete"}, 2, 5, WholeFile)}

\* The forms share the values of their requests and of their ULBs: a permutation is of all of them.
Symmetry ==
  Permutations(Filing) \cup Permutations(Decision) \cup Permutations(Saver)
    \cup Permutations(Submitter) \cup Permutations(Reviewer) \cup Permutations(FcUlb)

\* The requests on the exemptions and the SFC form that are under way.
UnderWay ==
  {r \in Filing : filing[r].pc \in {"check", "write"}}
    \cup {q \in Decision : decision[q].pc \in {"check", "write"}}
    \cup {q \in DOMAIN change : change[q].pc \notin {"idle", "done"}}
    \cup {p \in Reviewer : review[p].pc # "idle"}

\* The bound on their overlap.
TwoAtOnce == Cardinality(UnderWay) <= 2
=============================================================================

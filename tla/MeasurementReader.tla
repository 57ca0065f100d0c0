--------------------------- MODULE MeasurementReader ---------------------------
(***************************************************************************)
(* MeasurementReader.py: the analysis side of the measurement files a     *)
(* benchmark script saves.  loadAndSum(file, algorithm) and               *)
(* loadAndAggregate(file, algorithm) json.load a file and fold it into    *)
(* the reader's data, test name -> column -> list of numbers; plot writes *)
(* one header line and one line per test.                                 *)
(*                                                                         *)
(* A file is what MeasurementWriter.save dumps: test name -> key -> list  *)
(* of timer values.  json turns the keys into strings, which no method    *)
(* reads: only test_data.values() is used.  A test name is the list of    *)
(* its "-"-separated parts (the writers' "%s-tot" and "%d-enc"); no part  *)
(* contains "-", so split("-") gives back exactly those parts.  A column  *)
(* of loadAndAggregate is the algorithm name and the phase, as a pair.    *)
(* dict.values() and iteritems() run in the dict's order, which Python    *)
(* does not fix: one order is taken, and what is checked does not depend  *)
(* on it.                                                                  *)
(***************************************************************************)
EXTENDS Integers, Sequences, SequencesExt, FiniteSets

CONSTANTS
    Algorithms,      \* the algorithm_name arguments the analysis passes
    MaxLoads         \* bound on load calls in one analysis

VARIABLES
    file,      \* the saved measurements: test name -> key -> values
    data,      \* self.data: test name -> column -> values
    loads,     \* the load calls made: [kind, algorithm]
    rpc        \* "loading", "plotted" or "failed" (a raised ValueError)

rvars == <<file, data, loads, rpc>>

NoData == [t \in {} |-> <<>>]

\* The i-th element of a list, or the 0 the while loop pads with.
At(s, i) == IF i <= Len(s) THEN s[i] ELSE 0

\* Mutant: each position overwritten by the new list's value.
SumIntoOverwrite(col, measurements) ==
    [x \in 1..Max({Len(col), Len(measurements)}) |->
        IF x <= Len(measurements) THEN measurements[x] ELSE col[x]]

\* "for x in range(0, len(measurements))": the column padded with 0 up to
\* len(measurements), then measurements[x] added to position x.
SumInto(col, measurements) ==
    [x \in 1..Max({Len(col), Len(measurements)}) |-> At(col, x) + At(measurements, x)]

\* A column as it stands, or the [] the method creates.
Column(d, t, c) == IF t \in DOMAIN d /\ c \in DOMAIN d[t] THEN d[t][c] ELSE <<>>

\* d with column c of test t set to col, creating the test's dict if needed.
SetColumn(d, t, c, col) ==
    LET cols == IF t \in DOMAIN d THEN d[t] ELSE [k \in {} |-> <<>>]
    IN  [u \in DOMAIN d \cup {t} |->
            IF u = t THEN [k \in DOMAIN cols \cup {c} |-> IF k = c THEN col ELSE cols[k]]
            ELSE d[u]]

\* loadAndSum: per test, every list of the test summed position by
\* position into the column named after the algorithm.
loadAndSum(d, f, algorithm_name) ==
    LET sumTest(t, acc) ==
            SetColumn(acc, t, algorithm_name,
                      FoldFunction(LAMBDA m, col : SumInto(col, m),
                                   Column(acc, t, algorithm_name), f[t]))
    IN  FoldFunctionOnSet(sumTest, d, [t \in DOMAIN f |-> t], DOMAIN f)

\* Whether test_name.split("-") unpacks into keysize, phase.
Splits(t) == Len(t) = 2

\* Mutant: the column named after the algorithm only, without the phase.
aggregateTestNoPhase(d, f, algorithm_name, t) ==
    LET keysize == <<t[1]>>
        col     == algorithm_name
    IN  SetColumn(d, keysize, col,
                  FoldFunction(LAMBDA m, c : c \o m, Column(d, keysize, col), f[t]))

\* One test of loadAndAggregate: column algorithm_name + "-" + phase of
\* test keysize, every value of every list appended.
aggregateTest(d, f, algorithm_name, t) ==
    LET keysize == <<t[1]>>
        col     == <<algorithm_name, t[2]>>
    IN  SetColumn(d, keysize, col,
                  FoldFunction(LAMBDA m, c : c \o m, Column(d, keysize, col), f[t]))

\* The tests of the set S aggregated one after the other.
aggregateAll(d, f, algorithm_name, S) ==
    FoldFunctionOnSet(LAMBDA t, acc : aggregateTest(acc, f, algorithm_name, t),
                      d, [t \in DOMAIN f |-> t], S)

TypeOK ==
    /\ rpc \in {"loading", "plotted", "failed"}
    /\ loads \in Seq([kind : {"sum", "aggregate"}, algorithm : Algorithms])
    /\ Len(loads) <= MaxLoads
    /\ \A t \in DOMAIN data : \A c \in DOMAIN data[t] : data[t][c] \in Seq(Nat)

Init ==
    /\ data = NoData /\ loads = <<>> /\ rpc = "loading"

\* loadAndSum(file_name, algorithm_name): the file's tests summed in.
LoadAndSum ==
    /\ rpc = "loading" /\ Len(loads) < MaxLoads
    /\ \E a \in Algorithms :
          /\ data' = loadAndSum(data, file, a)
          /\ loads' = Append(loads, [kind |-> "sum", algorithm |-> a])
    /\ UNCHANGED <<file, rpc>>

\* loadAndAggregate(file_name, algorithm_name): a test name that does not
\* split into two parts raises ValueError in the unpacking, after the
\* tests iterated before it -- any of the others -- were aggregated.
LoadAndAggregate ==
    /\ rpc = "loading" /\ Len(loads) < MaxLoads
    /\ \E a \in Algorithms :
          /\ loads' = Append(loads, [kind |-> "aggregate", algorithm |-> a])
          /\ LET bad == {t \in DOMAIN file : ~Splits(t)}
             IN  IF bad = {}
                 THEN data' = aggregateAll(data, file, a, DOMAIN file) /\ UNCHANGED rpc
                 ELSE \E before \in SUBSET (DOMAIN file \ bad) :
                         data' = aggregateAll(data, file, a, before) /\ rpc' = "failed"
    /\ UNCHANGED file

\* plot: "%d" % (int(test_name) * scale_x) raises ValueError on a test name
\* that is not one number, at the first such row; the averages and
\* deviations written are numpy's and not modelled.
Plot ==
    /\ rpc = "loading"
    /\ rpc' = IF \A t \in DOMAIN data : Len(t) = 1 THEN "plotted" ELSE "failed"
    /\ UNCHANGED <<file, data, loads>>

ReaderNext == LoadAndSum \/ LoadAndAggregate \/ Plot

-----------------------------------------------------------------------------
(* Properties                                                             *)

\* The reference sum: position x of test t's list for an algorithm loaded
\* with loadAndSum n times is n times the sum, over every key of t, of
\* that key's x-th value; the list is as long as t's longest.
SumOfPosition(t, x) == SumFunction([k \in DOMAIN file[t] |-> At(file[t][k], x)])

Loaded(kind, a) == Cardinality({i \in DOMAIN loads : loads[i] = [kind |-> kind, algorithm |-> a]})

\* loadAndSum keeps the totals: after any sequence of loads, each
\* algorithm's column of each test holds, position by position, the sum
\* over the test's keys of that position times the times it was loaded --
\* no key's values dropped or taken twice, nothing lost to the padding
\* when the keys' lists differ in length.
SumKeepsTotals ==
    \A a \in Algorithms : \A t \in DOMAIN file :
        Loaded("sum", a) > 0 =>
            LET col == Column(data, t, a)
                n   == Max({Len(file[t][k]) : k \in DOMAIN file[t]} \cup {0})
            IN  /\ Len(col) = n
                /\ \A x \in 1..n : col[x] = Loaded("sum", a) * SumOfPosition(t, x)

\* A list's values as a bag, each with the number of times it occurs.
ListBag(s) == [v \in Range(s) |-> Cardinality({i \in DOMAIN s : s[i] = v})]

\* The values of test t, every key's list, as a bag.
BagOfTest(t) == FoldFunction(LAMBDA m, b : b (+) ListBag(m), EmptyBag, file[t])

\* loadAndAggregate keeps every value in its own column: once the
\* analysis has loaded without failing, column algorithm-phase of keysize
\* holds each value of test "keysize-phase" as many times as the file was
\* aggregated under that algorithm, and nothing else.
AggregateKeepsAll ==
    rpc # "failed" =>
        \A a \in Algorithms : \A t \in DOMAIN file :
            Splits(t) /\ Loaded("aggregate", a) > 0 =>
                LET col == Column(data, <<t[1]>>, <<a, t[2]>>)
                IN  \A v \in BagToSet(BagOfTest(t)) \cup Range(col) :
                        CopiesIn(v, ListBag(col)) = Loaded("aggregate", a) * CopiesIn(v, BagOfTest(t))

=============================================================================

------------------------------ MODULE Assignment ------------------------------
(* BYTETracker::linear_assignment: which track takes which detection, given     *)
(* the cost of every pair and the cost above which a pair is no match.  The     *)
(* matrix is extended to a square one (BYTETracker::lapjv), on which lapjv.cpp  *)
(* runs the algorithm of Jonker and Volgenant: column reduction and reduction   *)
(* transfer, two rounds of augmenting row reduction, and shortest augmenting    *)
(* paths for the rows still free.                                               *)
(*                                                                              *)
(* Costs are integers, in units of which the limit is an even number.  Rows and *)
(* columns are counted from 0; -1 is nobody.  The order of columns on the SCAN  *)
(* and TODO lists, which decides between equally short paths, is left open.     *)
EXTENDS Integers, Sequences, FiniteSets, FiniteSetsExt

CONSTANTS
    Costs,          \* the costs a pair may have
    Half,           \* cost_limit / 2
    MaxRows, MaxCols    \* bounds: tracks and detections

\* What is assumed of the constants.
CostsAssumption == Costs \subseteq Nat /\ Half \in Nat
BoundsAssumption == {MaxRows, MaxCols} \subseteq Nat \ {0}

VARIABLES
    rows, cols,     \* n_rows, n_cols
    cost,           \* the cost of a row and a column
    step,           \* where lapjv_internal is
    x, y, v,        \* the column of a row, the row of a column, the column's price
    free,           \* free_rows in use
    current, count, kept, round,    \* _carr_dense: current, rr_cnt, free_rows[0..new_free_rows)
    d, pred, ready, scan    \* find_path_dense

input == <<rows, cols, cost>>
carr == <<current, count, kept, round>>
path == <<d, pred, ready, scan>>
vars == <<input, step, x, y, v, free, carr, path>>

Nobody == -1
N == rows + cols
All == 0..(N - 1)

\* Slip: the corner of nobody's row and nobody's column costs as the rest.
ExtendFlat(r, c, m) ==
    [i \in 0..(r + c - 1) |-> [j \in 0..(r + c - 1) |->
        IF i < r /\ j < c THEN m[i][j] ELSE Half]]

\* The extended matrix of BYTETracker::lapjv().
Extend(r, c, m) ==
    [i \in 0..(r + c - 1) |-> [j \in 0..(r + c - 1) |->
        IF i < r /\ j < c THEN m[i][j] ELSE IF i >= r /\ j >= c THEN 0 ELSE Half]]

\* The cheapest of S, and the first of some.
Cheapest(S, f) == {j \in S : \A k \in S : f[j] <= f[k]}
First(S) == Min(S)

\* _ccrrt_dense(): the first cheapest row of a column ...
RowOf(j) == First(Cheapest(All, [i \in All |-> cost[i][j]]))
\* ... which keeps the last column it is the cheapest of.
Mine(i) == {j \in All : RowOf(j) = i}
Takes(i) == IF Mine(i) = {} THEN Nobody ELSE Max(Mine(i))

Init ==
    /\ rows \in 1..MaxRows /\ cols \in 1..MaxCols
    /\ \E m \in [0..(rows - 1) -> [0..(cols - 1) -> Costs]] : cost = Extend(rows, cols, m)
    /\ v = [j \in All |-> cost[RowOf(j)][j]]
    /\ x = [i \in All |-> Takes(i)]
    /\ y = [j \in All |-> IF Takes(RowOf(j)) = j THEN RowOf(j) ELSE Nobody]
    /\ step = "transfer" /\ current = 0 /\ free = <<>>
    /\ count = 0 /\ kept = <<>> /\ round = 0
    /\ d = <<>> /\ pred = <<>> /\ ready = {} /\ scan = {}

\* A row that was the first cheapest of one column only.
Unique(i) == Cardinality(Mine(i)) = 1

Reduced(i, j) == cost[i][j] - v[j]
\* What i bids for: its cheapest column of some.
Best(S, i) == First(Cheapest(S, [j \in All |-> Reduced(i, j)]))

\* The second loop: a free row is listed, a row with one column passes on what
\* its second best column costs more.
Transfer ==
    /\ step = "transfer"
    /\ LET i == current IN
         /\ free' = IF x[i] = Nobody THEN Append(free, i) ELSE free
         /\ v' = IF x[i] # Nobody /\ Unique(i)
                 THEN [v EXCEPT ![x[i]] = @ - Reduced(i, Best(All \ {x[i]}, i))]
                 ELSE v
         /\ IF i + 1 < N
            THEN current' = i + 1 /\ UNCHANGED step
            ELSE current' = 0 /\ step' = IF free' = <<>> THEN "done" ELSE "reduce"
    /\ UNCHANGED <<input, x, y, count, kept, round, path>>

\* _carr_dense(), one turn: the row at the front bids for its best column; the
\* row it drives out is next, or, when the bid did not lower the price or the
\* turns are used up, waits for the next round.
Reduce ==
    /\ step = "reduce" /\ current < Len(free)
    /\ LET i == free[current + 1]
           j1 == Best(All, i)
           j2 == Best(All \ {j1}, i)
           raise == Reduced(i, j2) - Reduced(i, j1)
           turns == count + 1 < (current + 1) * N
           lowers == raise > 0
           j == IF turns /\ ~lowers /\ y[j1] # Nobody THEN j2 ELSE j1
           out == y[j]
       IN /\ count' = count + 1
          /\ v' = IF turns /\ lowers THEN [v EXCEPT ![j1] = @ - raise] ELSE v
          /\ IF out # Nobody /\ turns /\ lowers
             THEN /\ current' = current /\ free' = [free EXCEPT ![current + 1] = out]
                  /\ UNCHANGED kept
             ELSE /\ current' = current + 1 /\ UNCHANGED free
                  /\ kept' = IF out = Nobody THEN kept ELSE Append(kept, out)
          /\ x' = [x EXCEPT ![i] = j]
          /\ y' = [y EXCEPT ![j] = i]
    /\ UNCHANGED <<input, step, round, path>>

\* lapjv_internal() goes round twice, then augments.
EndRound ==
    /\ step = "reduce" /\ current = Len(free)
    /\ free' = kept /\ kept' = <<>> /\ current' = 0 /\ count' = 0 /\ round' = round + 1
    /\ step' = IF kept = <<>> THEN "done" ELSE IF round = 0 THEN "reduce" ELSE "path"
    /\ UNCHANGED <<input, x, y, v, path>>

-------------------------------------------------------------------------------
(* find_path_dense() and _ca_dense()                                            *)

Todo == All \ (ready \cup scan)

StartPath ==
    /\ step = "path"
    /\ d' = [j \in All |-> Reduced(free[1], j)] /\ pred' = [j \in All |-> free[1]]
    /\ ready' = {} /\ scan' = {}
    /\ step' = "find"
    /\ UNCHANGED <<input, x, y, v, free, carr>>

\* The columns nearer than the end of the path go up in price.
Price(done, j) == [k \in All |-> IF k \in done THEN v[k] + d[k] - d[j] ELSE v[k]]

\* The columns on the way back from column j over the rows they were reached from:
\* the fewest that lead to the free row.
Leads(C, from, j) == j \in C /\ \A k \in C : from[k] = free[1] \/ x[from[k]] \in C
Way(from, j) == {k \in All : \A C \in SUBSET All : Leads(C, from, j) => k \in C}

\* _ca_dense(): every row on the path takes the column it was reached for.
Augment(from, j, prices) ==
    /\ x' = [i \in All |-> IF \E k \in Way(from, j) : from[k] = i
                           THEN CHOOSE k \in Way(from, j) : from[k] = i ELSE x[i]]
    /\ y' = [k \in All |-> IF k \in Way(from, j) THEN from[k] ELSE y[k]]
    /\ v' = prices
    /\ free' = Tail(free)
    /\ step' = IF Len(free) = 1 THEN "done" ELSE "path"
    /\ d' = <<>> /\ pred' = <<>> /\ ready' = {} /\ scan' = {}

\* _find_dense(): the nearest columns go on the SCAN list; a free one among them
\* ends the path.
Find ==
    /\ step = "find" /\ scan = {}
    /\ LET near == Cheapest(Todo, d)
           ends == {j \in near : y[j] = Nobody}
       IN IF ends = {}
          THEN scan' = near /\ UNCHANGED <<step, x, y, v, free, d, pred, ready>>
          ELSE \E j \in ends : Augment(pred, j, Price(ready, j))
    /\ UNCHANGED <<input, carr>>

\* _scan_dense(), one column of the SCAN list: its row may shorten the way to
\* the others; a free column that is then as near as this one ends the path.
Scan ==
    /\ step = "find"
    /\ \E j \in scan :
         LET i == y[j]
             h == Reduced(i, j) - d[j]
             shorter == {k \in Todo : Reduced(i, k) - h < d[k]}
             level == {k \in shorter : Reduced(i, k) - h = d[j]}
             ends == {k \in level : y[k] = Nobody}
         IN IF ends = {}
            THEN /\ d' = [k \in All |-> IF k \in shorter THEN Reduced(i, k) - h ELSE d[k]]
                 /\ pred' = [k \in All |-> IF k \in shorter THEN i ELSE pred[k]]
                 /\ scan' = (scan \ {j}) \cup level /\ ready' = ready \cup {j}
                 /\ UNCHANGED <<step, x, y, v, free>>
            ELSE \E k \in ends : Augment([pred EXCEPT ![k] = i], k, Price(ready, j))
    /\ UNCHANGED <<input, carr>>

Next == Transfer \/ Reduce \/ EndRound \/ StartPath \/ Find \/ Scan

Spec == Init /\ [][Next]_vars

-------------------------------------------------------------------------------
\* What linear_assignment() returns: the rows whose column is a real one.
Matches == {<<i, x[i]>> : i \in {k \in 0..(rows - 1) : x[k] < cols}}

\* The sum of what f has for its arguments: as many things as they have together.
Total(f) == Cardinality(UNION {{e} \X (1..f[e]) : e \in DOMAIN f})

Value(m) == Total([p \in m |-> cost[p[1]][p[2]]]) + Half * (rows + cols - 2 * Cardinality(m))

\* Every set of pairs of rows and columns with none of them twice.
Pairings ==
    {m \in SUBSET ((0..(rows - 1)) \X (0..(cols - 1))) :
        \A p, q \in m : p # q => p[1] # q[1] /\ p[2] # q[2]}

\* The pairs linear_assignment() returns are a matching, and no other matching
\* is cheaper, where leaving a track and a detection alone costs as much as a
\* pair at the limit (BYTETracker::lapjv, lapjv_internal).
Optimal ==
    step = "done" =>
        /\ Matches \in Pairings
        /\ \A m \in Pairings : Value(Matches) <= Value(m)
===============================================================================

------------------------------- MODULE Algorithms -------------------------------
(***************************************************************************)
(* The algorithms of the early weeks: loops.c (10), arrays.c (12),          *)
(* strings.c (14), ptrmath.c (15), params.c (16), recur.c (18), structs.c   *)
(* (21), toolbox.c (24), perf.c (34) and mathlib.c (46), as functions of    *)
(* their arguments.  A behaviour calls one of them; results are small       *)
(* enough not to overflow, and a quotient of two doubles is the pair.       *)
(***************************************************************************)
EXTENDS Integers, SequencesExt

CONSTANTS
    LIMIT,             \* 50, of the sieve
    MaxLength          \* bound: the elements of an array or a string

VARIABLES arg, result

vars == <<arg, result>>

Values == 1 .. 3
Arrays == UNION {[1 .. k -> Values] : k \in 0 .. MaxLength}
Sorted(a) == \A i, j \in DOMAIN a : i < j => a[i] <= a[j]

Init ==
    /\ result = <<>>
    /\ \/ arg \in [f : {"sieve"}]
       \/ arg \in [f : {"search"}, a : {a \in Arrays : Sorted(a)}, target : 0 .. 4]
       \/ arg \in [f : {"fib"}, n : 0 .. 12]
       \/ arg \in [f : {"hanoi"}, disks : 0 .. 5]
       \/ arg \in [f : {"array"}, a : Arrays]
       \/ arg \in [f : {"compare"}, a : Arrays, b : Arrays]
       \/ arg \in [f : {"copy"}, a : Arrays, size : 1 .. MaxLength + 2]
       \/ arg \in [f : {"uniform"}, max : 0 .. 20, n : 1 .. 6]
       \/ arg \in [f : {"matrix"}, rows : 1 .. 3, cols : 1 .. 3, m : [0 .. 8 -> 1 .. 2]]
       \/ arg \in [f : {"memory"}, src : {m \in [1 .. 3 -> 0 .. 2] : m[3] = 0}, dst : [1 .. 3 -> 0 .. 2]]
       \/ arg \in [f : {"range"}, start : -1 .. 2, step : -1 .. 2, count : 1 .. MaxLength, factor : -1 .. 2]
       \/ arg \in [f : {"translate"}, rect : [1 .. 4 -> 0 .. 2], dx : -1 .. 1, dy : -1 .. 1]

-----------------------------------------------------------------------------
\* A definition whose name starts with "Bug" is a mistake the definition after
\* it could have had; no action uses it.

\* What is marked prime after each p.
Sieve ==
    LET prime[p \in 1 .. LIMIT] ==
          IF p = 1 THEN 2 .. LIMIT
          ELSE IF p * p > LIMIT \/ p \notin prime[p - 1] THEN prime[p - 1]
          ELSE prime[p - 1] \ {m \in p * p .. LIMIT : m % p = 0}
    IN  prime

Mid(lo, hi) == lo + (hi - lo) \div 2

bsearch_rec(a, target) ==
    LET search[lo \in 0 .. Len(a), hi \in -1 .. Len(a) - 1] ==
          LET mid == Mid(lo, hi) IN
          IF lo > hi THEN -1
          ELSE IF a[mid + 1] = target THEN mid
          ELSE IF a[mid + 1] < target THEN search[mid + 1, hi]
          ELSE search[lo, mid - 1]
    IN  search[0, Len(a) - 1]

\* The range after each round; it is empty, or its middle is what is sought.
BugNarrow(a, r, target) ==
    LET mid == Mid(r[1], r[2]) IN
    IF r[1] > r[2] \/ a[mid + 1] = target THEN r
    ELSE IF a[mid + 1] < target THEN <<mid + 1, r[2]>> ELSE <<r[1], mid>>
Narrow(a, r, target) ==
    LET mid == Mid(r[1], r[2]) IN
    IF r[1] > r[2] \/ a[mid + 1] = target THEN r
    ELSE IF a[mid + 1] < target THEN <<mid + 1, r[2]>> ELSE <<r[1], mid - 1>>
bsearch_iter(a, target) ==
    LET range[k \in 0 .. Len(a)] ==
          IF k = 0 THEN <<0, Len(a) - 1>> ELSE Narrow(a, range[k - 1], target)
        last == range[Len(a)]
    IN  IF last[1] > last[2] THEN -1 ELSE Mid(last[1], last[2])

\* Result and number of calls; the memo threads its cache, where 0 is unknown.
fib_naive(n) ==
    LET of[k \in 0 .. n] == IF k <= 1 THEN [value |-> k, calls |-> 1]
                            ELSE [value |-> of[k - 1].value + of[k - 2].value,
                                  calls |-> of[k - 1].calls + of[k - 2].calls + 1]
    IN  of[n]
fib_memo(top) ==
    LET of[n \in 0 .. top, cache \in [0 .. top -> Nat]] ==
          IF n <= 1 THEN [value |-> n, calls |-> 1, cache |-> cache]
          ELSE IF cache[n] # 0 THEN [value |-> cache[n], calls |-> 1, cache |-> cache]
          ELSE LET one == of[n - 1, cache]
                   two == of[n - 2, one.cache]
                   sum == one.value + two.value
               IN  [value |-> sum, calls |-> one.calls + two.calls + 1,
                    cache |-> [two.cache EXCEPT ![n] = sum]]
    IN  of[top, [k \in 0 .. top |-> 0]]
fib_iter(n) ==
    FoldLeft(LAMBDA ab, i : <<ab[2], ab[1] + ab[2]>>, <<0, 1>>, [i \in 1 .. n |-> i])[1]

\* The moves: a disk, from where, to where.
hanoi[disks \in Nat, from, to, via \in {"A", "B", "C"}] ==
    IF disks = 0 THEN <<>>
    ELSE hanoi[disks - 1, from, via, to] \o <<<<disks, from, to>>>>
           \o hanoi[disks - 1, via, to, from]

Swap(a, i) == [a EXCEPT ![i] = a[Len(a) + 1 - i], ![Len(a) + 1 - i] = a[i]]
reverse(a) == FoldLeft(Swap, a, [i \in 1 .. Len(a) \div 2 |-> i])
largest(a) == FoldLeft(LAMBDA best, q : IF a[q] > a[best] THEN q ELSE best, 1, [q \in DOMAIN a |-> q])
min_max(a) == FoldLeft(LAMBDA m, v : <<IF v < m[1] THEN v ELSE m[1], IF v > m[2] THEN v ELSE m[2]>>,
                       <<a[1], a[1]>>, a)

\* The length says that it is not there.
find(a, target) == Min({i \in 0 .. Len(a) : i < Len(a) => a[i + 1] = target})
at(a, index) == IF index >= Len(a) THEN <<>> ELSE <<a[index + 1]>>

\* Matrices are in memory row by row.
transpose(rows, cols, src) ==
    FoldLeft(LAMBDA dst, k : [dst EXCEPT ![(k % cols) * rows + k \div cols] = src[k]],
             [k \in 0 .. rows * cols - 1 |-> 0], [k \in 1 .. rows * cols |-> k - 1])

row_major(size, m) ==
    FoldLeft(LAMBDA total, k : total + m[k], 0, [k \in 1 .. size * size |-> k - 1])
column_major(size, m) ==
    FoldLeft(LAMBDA total, k : total + m[((k % size) * size) + k \div size], 0,
             [k \in 1 .. size * size |-> k - 1])
sum_to(n) == FoldLeft(+, 0, [i \in 1 .. n |-> i])

\* A string ends before the first 0 of memory.
my_strlen(mem) == Min({k \in 0 .. Len(mem) - 1 : mem[k + 1] = 0})
my_strcpy(dst, src) == [k \in DOMAIN dst |-> IF k <= my_strlen(src) + 1 THEN src[k] ELSE dst[k]]

class_average(a) == IF a = <<>> THEN <<>> ELSE <<FoldLeft(+, 0, a), Len(a)>>
ml_mean(a) ==
    IF a = <<>> THEN [status |-> "empty", mean |-> <<0, 1>>]
    ELSE [status |-> "ok", mean |-> <<FoldLeft(+, 0, a), Len(a)>>]
ml_scale(a, factor) == [k \in DOMAIN a |-> a[k] * factor]
ml_make_range(start, step, count) == [k \in 1 .. count |-> start + (k - 1) * step]
ml_acc_create == [total |-> 0, count |-> 0]
ml_acc_add(acc, v) == [total |-> acc.total + v, count |-> acc.count + 1]
ml_acc_mean(acc) == IF acc.count = 0 THEN <<0, 1>> ELSE <<acc.total, acc.count>>
\* What is visited, when the visitor returns non-zero for v.
ml_each(a, v) ==
    FoldLeft(LAMBDA e, w : IF e.stopped THEN e
                           ELSE [visited |-> Append(e.visited, w), stopped |-> w = v],
             [visited |-> <<>>, stopped |-> FALSE], a).visited

\* 1 is a space.
count_words(s) ==
    FoldLeft(LAMBDA w, c : IF c = 1 THEN [w EXCEPT !.in = FALSE]
                           ELSE IF w.in THEN w ELSE [in |-> TRUE, words |-> w.words + 1],
             [in |-> FALSE, words |-> 0], s).words

\* The terminator is smaller than every character.
my_strcmp[a \in Seq(Nat), b \in Seq(Nat)] ==
    IF a # <<>> /\ b # <<>> /\ Head(a) = Head(b) THEN my_strcmp[Tail(a), Tail(b)]
    ELSE Head(Append(a, 0)) - Head(Append(b, 0))

\* The copy and whether it is complete, as snprintf cuts it.
copy_into(size, s) ==
    [copied |-> SubSeq(s, 1, Min({Len(s), size - 1})), complete |-> Len(s) < size]

\* The values of rand, up to max, that are not drawn again.
uniform_limit(max, n) == max - (max % n)
Drawn(max, n, v) == {r \in 0 .. max : r < uniform_limit(max, n) /\ r % n = v}

rect_area(r) == (r[3] - r[1]) * (r[4] - r[2])
rect_translate(r, dx, dy) == <<r[1] + dx, r[2] + dy, r[3] + dx, r[4] + dy>>

Result ==
    CASE arg.f = "sieve" -> Sieve
      [] arg.f = "search" -> bsearch_iter(arg.a, arg.target)
      [] arg.f = "fib" -> fib_memo(arg.n)
      [] arg.f = "hanoi" -> hanoi[arg.disks, "A", "C", "B"]
      [] arg.f = "array" -> reverse(arg.a)
      [] arg.f = "compare" -> my_strcmp[arg.a, arg.b]
      [] arg.f = "copy" -> copy_into(arg.size, arg.a)
      [] arg.f = "uniform" -> uniform_limit(arg.max, arg.n)
      [] arg.f = "matrix" -> transpose(arg.rows, arg.cols, arg.m)
      [] arg.f = "memory" -> my_strcpy(arg.dst, arg.src)
      [] arg.f = "range" -> ml_make_range(arg.start, arg.step, arg.count)
      [] arg.f = "translate" -> rect_area(rect_translate(arg.rect, arg.dx, arg.dy))

Call == result = <<>> /\ result' = <<Result>> /\ UNCHANGED arg

Next == Call

-----------------------------------------------------------------------------
\* The pegs after the first k moves, the top of each first; a move that would put
\* a disk on a smaller one, or one that is not on top, has no result.
Pegs(moves, disks) ==
    LET after[k \in 0 .. Len(moves)] ==
          IF k = 0 THEN [p \in {"A", "B", "C"} |-> IF p = "A" THEN [d \in 1 .. disks |-> d] ELSE <<>>]
          ELSE LET m == moves[k]  pegs == after[k - 1] IN
               IF pegs["A"] = <<0>> \/ pegs[m[2]] = <<>> \/ Head(pegs[m[2]]) # m[1]
                    \/ (pegs[m[3]] # <<>> /\ Head(pegs[m[3]]) < m[1])
               THEN [pegs EXCEPT !["A"] = <<0>>]
               ELSE [pegs EXCEPT ![m[2]] = Tail(@), ![m[3]] = <<m[1]>> \o @]
    IN  after[Len(moves)]

Less(a, b) ==
    \E k \in 0 .. Len(a) :
        /\ k < Len(b) /\ SubSeq(a, 1, k) = SubSeq(b, 1, k)
        /\ k < Len(a) => a[k + 1] < b[k + 1]

\* "after processing p, every composite with a factor <= p has been marked", and
\* nothing else; the searches agree and find the target if it is there, among
\* equals too; so do the three Fibonacci functions, the memo in 2n calls; the
\* tower moves by legal moves, as few as there can be; the array functions and the
\* comparison do what their names say; a cut copy is noticed; every value of
\* uniform is drawn as often as the others; a transposed matrix has the same
\* elements at the places it should, and both orders of a square one add them all;
\* a string is copied with its end and no further; the accumulator, the mean of the
\* library and that of the class agree, scaling scales it, and a range has the mean
\* of its ends; a visit ends with the first value that stops it; a translation
\* keeps the area.
AlgorithmsAreRight ==
    LET r == result[1] IN
    result # <<>> =>
      CASE arg.f = "sieve" ->
             \A p \in 1 .. LIMIT : r[p] =
                 {i \in 2 .. LIMIT : ~ \E d \in 2 .. Min({p, i - 1}) : i % d = 0}
        [] arg.f = "search" ->
             /\ IF \E i \in DOMAIN arg.a : arg.a[i] = arg.target
                THEN arg.a[r + 1] = arg.target ELSE r = -1
             /\ r = bsearch_rec(arg.a, arg.target)
             /\ LET i == find(arg.a, arg.target) IN
                /\ (at(arg.a, i) = <<>>) = (r = -1)
                /\ r # -1 => i <= r /\ at(arg.a, i) = <<arg.target>>
        [] arg.f = "fib" ->
             /\ r.value = fib_naive(arg.n).value /\ r.value = fib_iter(arg.n)
             /\ r.calls <= Min({fib_naive(arg.n).calls, 2 * arg.n + 1})
        [] arg.f = "hanoi" ->
             /\ Len(r) = 2 ^ arg.disks - 1
             /\ Pegs(r, arg.disks)["C"] = [d \in 1 .. arg.disks |-> d]
        [] arg.f = "array" ->
             /\ r = Reverse(arg.a)
             /\ arg.a # <<>> =>
                  /\ largest(arg.a) = Min({q \in DOMAIN arg.a : arg.a[q] = Max(ToSet(arg.a))})
                  /\ min_max(arg.a) = <<Min(ToSet(arg.a)), Max(ToSet(arg.a))>>
             /\ count_words(arg.a) = Cardinality({i \in DOMAIN arg.a :
                  arg.a[i] # 1 /\ (i = 1 \/ arg.a[i - 1] = 1)})
             /\ ml_mean(arg.a).mean = ml_acc_mean(FoldLeft(ml_acc_add, ml_acc_create, arg.a))
             /\ class_average(arg.a) = IF ml_mean(arg.a).status = "ok" THEN ml_mean(arg.a).mean ELSE <<>>
             /\ ml_each(arg.a, 2) = SubSeq(arg.a, 1, Min({Len(arg.a), find(arg.a, 2) + 1}))
        [] arg.f = "compare" -> (r < 0) = Less(arg.a, arg.b) /\ (r = 0) = (arg.a = arg.b)
        [] arg.f = "copy" ->
             IsPrefix(r.copied, arg.a) /\ Len(r.copied) < arg.size /\ r.complete = (r.copied = arg.a)
        [] arg.f = "uniform" ->
             \A v \in 0 .. arg.n - 1 : Cardinality(Drawn(arg.max, arg.n, v)) = r \div arg.n
        [] arg.f = "matrix" ->
             /\ transpose(arg.cols, arg.rows, r) = [k \in DOMAIN r |-> arg.m[k]]
             /\ \A i \in 0 .. arg.rows - 1, j \in 0 .. arg.cols - 1 :
                    r[j * arg.rows + i] = arg.m[i * arg.cols + j]
             /\ row_major(arg.rows, arg.m) = column_major(arg.rows, arg.m)
        [] arg.f = "memory" ->
             /\ my_strlen(r) = my_strlen(arg.src)
             /\ \A k \in DOMAIN r : IF k <= my_strlen(r) THEN r[k] = arg.src[k]
                                   ELSE k > my_strlen(r) + 1 => r[k] = arg.dst[k]
        [] arg.f = "range" ->
             LET mean == ml_mean(r).mean  scaled == ml_mean(ml_scale(r, arg.factor)).mean IN
             /\ 2 * mean[1] = mean[2] * (r[1] + Last(r))
             /\ scaled = <<arg.factor * mean[1], mean[2]>>
             /\ mean[1] = arg.start * arg.count + arg.step * sum_to(arg.count - 1)
        [] arg.f = "translate" -> r = rect_area(arg.rect)
=============================================================================

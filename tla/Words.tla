--------------------------------- MODULE Words ---------------------------------
(***************************************************************************)
(* Arithmetic on machine words: bits.c of week 25, ub.c of week 36,         *)
(* portable.c of week 37, the fixed point of constrained.c of week 53, and  *)
(* the memory a firmware starts with: startup.c and layout.c of week 52.    *)
(* A behaviour calls one function with one argument.  Widths are            *)
(* parameters; an int64_t holds every number here.                          *)
(***************************************************************************)
EXTENDS Integers, SequencesExt

CONSTANTS
    ByteWidth,         \* 8
    IntWidth,          \* 32
    Q16_SHIFT,         \* 16
    NAME_BYTES         \* 32

VARIABLES arg, result

vars == <<arg, result>>

Byte == 0 .. 2 ^ ByteWidth - 1
INT_MAX == 2 ^ (IntWidth - 1) - 1
INT_MIN == -INT_MAX - 1
SIZE_MAX == 2 ^ IntWidth - 1
Int32 == INT_MIN .. INT_MAX
Cast(v) == ((v - INT_MIN) % (2 ^ IntWidth)) + INT_MIN
UpTo(n, S) == UNION {[1 .. k -> S] : k \in 0 .. n}

StackWords == 4        \* bound
PAINT == 12            \* a word no program is meant to store
Setpoint == 5
Gains == [kp |-> 2 ^ Q16_SHIFT, ki |-> 1, kd |-> 1]

Records == [id : {0, 27, 255}, score : {0, 9}, timestamp : {1, 2 ^ 15 + 7},
            name : [1 .. NAME_BYTES -> {0, 2}]]

Init ==
    /\ result = <<>>
    /\ \/ arg \in [f : {"rgb"}, r : Byte, g : Byte, b : Byte]
       \/ arg \in [f : {"popcount"}, v : 0 .. SIZE_MAX]
       \/ arg \in [f : {"checksum"}, data : UpTo(3, Byte), at : 1 .. 3, other : Byte]
       \/ arg \in [f : {"add"}, a : Int32, b : Int32]
       \/ arg \in [f : {"allocate"}, count : 0 .. SIZE_MAX, size : {3, 4}]
       \/ arg \in [f : {"wire"}, record : Records, at : 1 .. 20 + NAME_BYTES]
       \/ arg \in [f : {"utf8"}, text : UpTo(3, 1 .. 4), most : 0 .. 13]
       \/ arg \in [f : {"q16"}, a : Int32, b : Int32 \ {0}]
       \/ arg \in [f : {"put"}, q : Int32 \ {INT_MIN}]
       \/ arg \in [f : {"sine"}, index : 0 .. 20]
       \/ arg \in [f : {"pid"}, measured : [1 .. 3 -> 0 .. 5]]
       \/ arg \in [f : {"image"}, data : 0 .. 2, bss : 0 .. 2, below : 0 .. 3, painted : BOOLEAN,
                   deepest : 1 .. StackWords, value : {PAINT, 7}, garbage : {PAINT, 9}]

-----------------------------------------------------------------------------
\* A definition whose name starts with "Bug" is a mistake the definition after
\* it could have had; no action uses it.

Bits(v) == {i \in 0 .. IntWidth : (v \div (2 ^ i)) % 2 = 1}
FromBits(S) == MapThenSumSet(LAMBDA i : 2 ^ i, S)
Xor(v, w) == FromBits((Bits(v) \ Bits(w)) \cup (Bits(w) \ Bits(v)))
And(v, w) == FromBits(Bits(v) \cap Bits(w))

rgb_pack(r, g, b) == r * 2 ^ (2 * ByteWidth) + g * 2 ^ ByteWidth + b
rgb_unpack(v) == [k \in 1 .. 3 |-> (v \div 2 ^ (ByteWidth * (3 - k))) % (2 ^ ByteWidth)]

popcount_naive(v) == Cardinality(Bits(v))
popcount_kernighan(v) ==
    LET count[w \in 0 .. v] == IF w = 0 THEN 0 ELSE 1 + count[And(w, w - 1)] IN count[v]

\* Exclusive or, then rotate left by one.
checksum(data) ==
    FoldLeft(LAMBDA sum, b : LET x == Xor(sum, b)
                             IN  ((2 * x) % (2 ^ IntWidth)) + x \div 2 ^ (IntWidth - 1),
             0, data)

\* What is stored, if anything.  The broken one looks at a sum that may have
\* wrapped, or at nothing if the compiler uses that it may not.
add_checked_broken(a, b) == IF Cast(a + b) < a THEN <<>> ELSE <<Cast(a + b)>>
add_checked(a, b) ==
    IF (b > 0 /\ a > INT_MAX - b) \/ (b < 0 /\ a < INT_MIN - b) THEN <<>> ELSE <<a + b>>

\* The number of bytes asked for.
allocate_checked(count, size) ==
    IF count > SIZE_MAX \div size THEN <<>> ELSE <<(count * size) % (2 ^ IntWidth)>>

store_be(v, n) == [k \in 1 .. n |-> (v \div 2 ^ (ByteWidth * (n - k))) % (2 ^ ByteWidth)]
load_be(in) == FoldLeft(LAMBDA v, b : v * 2 ^ ByteWidth + b, 0, in)

WIRE_MAGIC == <<1, 2, 3, 1>>
WIRE_VERSION == 1

\* memcpy of strnlen bytes over zeroes.
record_encode(r) ==
    WIRE_MAGIC \o store_be(WIRE_VERSION, 2) \o store_be(r.id, 4) \o store_be(r.score, 2)
      \o store_be(r.timestamp, 8)
      \o [k \in 1 .. NAME_BYTES |-> IF \E j \in 1 .. k : r.name[j] = 0 THEN 0 ELSE r.name[k]]

record_decode(in) ==
    IF SubSeq(in, 1, 4) # WIRE_MAGIC \/ load_be(SubSeq(in, 5, 6)) # WIRE_VERSION THEN <<>>
    ELSE <<[id |-> load_be(SubSeq(in, 7, 10)), score |-> load_be(SubSeq(in, 11, 12)),
            timestamp |-> load_be(SubSeq(in, 13, 20)),
            name |-> [SubSeq(in, 21, 20 + NAME_BYTES) EXCEPT ![NAME_BYTES] = 0]]>>

\* A character of n bytes is a lead byte and n - 1 others.
Lead == "lead"
Encoded(text) == FlattenSeq([k \in DOMAIN text |->
    [j \in 1 .. text[k] |-> IF j = 1 THEN Lead ELSE "continuation"]])
utf8_length(s) == Len(SelectSeq(s, LAMBDA b : b = Lead))
utf8_safe_truncate(s, most) ==
    IF Len(s) <= most THEN Len(s)
    ELSE Max({cut \in 0 .. most : cut = 0 \/ s[cut + 1] = Lead})

Q16_ONE == 2 ^ Q16_SHIFT
Abs(v) == IF v < 0 THEN -v ELSE v
Quotient(v, w) == IF (v < 0) = (w < 0) THEN Abs(v) \div Abs(w) ELSE -(Abs(v) \div Abs(w))
q16_mul(a, b) == Cast((a * b) \div Q16_ONE)                \* >> rounds down
q16_div(a, b) == Cast(Quotient(a * Q16_ONE, b))            \* / rounds to zero

\* The digits, the last one first, and the number put_q16 prints.
put_int(v) ==
    LET t[w \in 0 .. v] == IF w = 0 THEN <<>> ELSE <<w % 10>> \o t[w \div 10]
    IN  IF v = 0 THEN <<0>> ELSE t[v]
put_q16(q) ==
    [whole |-> put_int(Abs(q) \div Q16_ONE),
     thousandths |-> ((Abs(q) % Q16_ONE) * 1000) \div Q16_ONE]

sine_table == <<0, 6423, 12785, 19024, 25079, 30893, 36409, 41575, 46340, 50660,
                54491, 57797, 60547, 62714, 64276, 65220, 65536>>
q16_sin_quarter(index) == sine_table[(IF index > 16 THEN 16 ELSE index) + 1]

pid_step(p, setpoint, measured) ==
    LET error == setpoint - measured
        integral == p.integral + error
    IN  [integral |-> integral, previous |-> error,
         out |-> q16_mul(Gains.kp, error) + q16_mul(Gains.ki, integral)
                   + q16_mul(Gains.kd, error - p.previous)]
Controlled(measured) ==
    FoldLeft(LAMBDA p, m : pid_step(p, Setpoint, m),
             [integral |-> 0, previous |-> 0, out |-> 0], measured)

\* .data, .bss and the stack are one after the other; its first words from below
\* are not yet in use when it is painted.
reset_handler(ram, load, data, bss) ==
    [k \in DOMAIN ram |-> IF k <= data THEN load[k] ELSE IF k <= data + bss THEN 0 ELSE ram[k]]
paint_stack(ram, bottom, below) ==
    [k \in DOMAIN ram |-> IF k >= bottom /\ k < bottom + below THEN PAINT ELSE ram[k]]
stack_used(ram, bottom) ==
    Len(ram) + 1 - Min({k \in bottom .. Len(ram) + 1 : k <= Len(ram) => ram[k] # PAINT})
Image(a) ==
    LET bottom == a.data + a.bss + 1
        size == a.data + a.bss + StackWords
        started == reset_handler([k \in 1 .. size |-> a.garbage], <<7, 8>>, a.data, a.bss)
        ready == IF a.painted THEN paint_stack(started, bottom, a.below) ELSE started
        \* what main's frames leave, in use or not any more
        end == [k \in 1 .. size |->
                   IF k >= bottom + a.below THEN 7
                   ELSE IF k > size - a.deepest THEN a.value ELSE ready[k]]
    IN  [ram |-> end, used |-> stack_used(end, bottom)]

Result ==
    CASE arg.f = "rgb" -> rgb_unpack(rgb_pack(arg.r, arg.g, arg.b))
      [] arg.f = "popcount" -> popcount_kernighan(arg.v)
      [] arg.f = "checksum" -> checksum(arg.data)
      [] arg.f = "add" -> add_checked(arg.a, arg.b)
      [] arg.f = "allocate" -> allocate_checked(arg.count, arg.size)
      [] arg.f = "wire" -> record_encode(arg.record)
      [] arg.f = "utf8" -> utf8_safe_truncate(Encoded(arg.text), arg.most)
      [] arg.f = "q16" -> <<q16_mul(arg.a, arg.b), q16_div(arg.a, arg.b)>>
      [] arg.f = "put" -> put_q16(arg.q)
      [] arg.f = "sine" -> q16_sin_quarter(arg.index)
      [] arg.f = "pid" -> Controlled(arg.measured)
      [] arg.f = "image" -> Image(arg)

Call == result = <<>> /\ result' = <<Result>> /\ UNCHANGED arg

Next == Call

-----------------------------------------------------------------------------
Fits(v) == v \in Int32
Flipped(s, k) == [s EXCEPT ![k] = (@ + 1) % (2 ^ ByteWidth)]
Terminated(name) ==
    [k \in 1 .. NAME_BYTES |->
        IF k = NAME_BYTES \/ \E j \in 1 .. k : name[j] = 0 THEN 0 ELSE name[k]]
Number(digits) == FoldRight(LAMBDA d, v : 10 * v + d, digits, 0)

\* Packing loses nothing; counting bits by clearing them counts them all; a
\* checksum notices a changed byte; the checked sum and allocation refuse exactly
\* what does not fit; a record read back is the one written, with its name cut to
\* what a NUL leaves room for, and a damaged magic or version is refused; a cut
\* text is the most whole characters that fit; the fixed-point product is rounded
\* down, dividing by it undoes a product with a whole number; what is printed is
\* the number, cut after three places; sine and cosine squared make one; the
\* controller's output is at most three units below the exact one and its integral
\* is exact; main finds .data and .bss as they must be, the stack is painted above
\* them, and if it was painted its use is measured to the word, unless the deepest
\* word holds the paint itself, and if it was not, it all seems to be in use.
WordsAreRight ==
    LET r == result[1] IN
    result # <<>> =>
      CASE arg.f = "rgb" -> r = <<arg.r, arg.g, arg.b>>
        [] arg.f = "popcount" -> r = popcount_naive(arg.v)
        [] arg.f = "checksum" ->
             arg.at \in DOMAIN arg.data /\ arg.data[arg.at] # arg.other =>
                 r # checksum([arg.data EXCEPT ![arg.at] = arg.other])
        [] arg.f = "add" -> r = IF Fits(arg.a + arg.b) THEN <<arg.a + arg.b>> ELSE <<>>
        [] arg.f = "allocate" ->
             r = IF arg.count * arg.size <= SIZE_MAX THEN <<arg.count * arg.size>> ELSE <<>>
        [] arg.f = "wire" ->
             /\ record_decode(r) = <<[arg.record EXCEPT !.name = Terminated(@)]>>
             /\ (record_decode(Flipped(r, arg.at)) = <<>>) = (arg.at <= 6)
        [] arg.f = "utf8" ->
             LET ends == {Len(Encoded(SubSeq(arg.text, 1, k))) : k \in 0 .. Len(arg.text)}
             IN  /\ r = Max({e \in ends : e <= arg.most})
                 /\ utf8_length(SubSeq(Encoded(arg.text), 1, r)) <= Len(arg.text)
        [] arg.f = "q16" ->
             /\ Fits((arg.a * arg.b) \div Q16_ONE) =>
                  /\ r[1] * Q16_ONE <= arg.a * arg.b /\ arg.a * arg.b < (r[1] + 1) * Q16_ONE
                  /\ arg.b % Q16_ONE = 0 => q16_div(r[1], arg.b) = arg.a
        [] arg.f = "put" ->
             Number(r.whole) * 1000 + r.thousandths = (Abs(arg.q) * 1000) \div Q16_ONE
        [] arg.f = "sine" ->
             LET i == IF arg.index > 16 THEN 16 ELSE arg.index
                 other == q16_sin_quarter(16 - i)
             IN  Abs((r \div 4) ^ 2 + (other \div 4) ^ 2 - 2 ^ 28) <= 2 ^ 16
        [] arg.f = "pid" ->
             LET errors == [k \in 1 .. 3 |-> Setpoint - arg.measured[k]]
                 exact == Gains.kp * errors[3] + Gains.ki * r.integral
                            + Gains.kd * (errors[3] - errors[2])
             IN  /\ r.integral = errors[1] + errors[2] + errors[3]
                 /\ r.out * Q16_ONE <= exact /\ exact < (r.out + 3) * Q16_ONE
        [] arg.f = "image" ->
             /\ SubSeq(r.ram, 1, arg.data + arg.bss)
                  = SubSeq(<<7, 8>>, 1, arg.data) \o [k \in 1 .. arg.bss |-> 0]
             /\ LET inUse == StackWords - arg.below IN
                /\ arg.painted /\ arg.value # PAINT => r.used = Max({inUse, arg.deepest})
                /\ arg.painted => r.used >= inUse
                /\ ~ arg.painted /\ arg.garbage # PAINT /\ arg.deepest < StackWords =>
                     r.used = StackWords
=============================================================================

------------------------------ MODULE SurveyCode ------------------------------
(***************************************************************************)
(* The code that is printed for a venue: its survey's address as a QR code,  *)
(* byte mode, error correction level M, versions 1 to 10 (domain/console/    *)
(* qr-code.ts).  The repository's own test reads a code with the encoder's    *)
(* traversal and tables; here it is read by the standard (ISO/IEC 18004).     *)
(* A byte is the set of the exponents of its bits, which is also the          *)
(* polynomial over GF(2) that Reed-Solomon takes it for.                      *)
(***************************************************************************)
EXTENDS Integers, FiniteSets, Sequences, SequencesExt, FiniteSetsExt, TLC

CONSTANT Address  \* bound: the texts that are printed, as code points

ASSUME AddressAssumption == \A text \in Address : text \in Seq(Nat)

VARIABLE print  \* the code that is being made

-----------------------------------------------------------------------------
(* Codewords *)

\* Data codewords by block, parity codewords of each, centres of alignment patterns.
Version == <<
    [blocks |-> <<16>>, ec |-> 10, centres |-> {}],
    [blocks |-> <<28>>, ec |-> 16, centres |-> {6, 18}],
    [blocks |-> <<44>>, ec |-> 26, centres |-> {6, 22}],
    [blocks |-> <<32, 32>>, ec |-> 18, centres |-> {6, 26}],
    [blocks |-> <<43, 43>>, ec |-> 24, centres |-> {6, 30}],
    [blocks |-> <<27, 27, 27, 27>>, ec |-> 16, centres |-> {6, 34}],
    [blocks |-> <<31, 31, 31, 31>>, ec |-> 18, centres |-> {6, 22, 38}],
    [blocks |-> <<38, 38, 39, 39>>, ec |-> 22, centres |-> {6, 24, 42}],
    [blocks |-> <<36, 36, 36, 37, 37>>, ec |-> 22, centres |-> {6, 26, 46}],
    [blocks |-> <<43, 43, 43, 43, 44>>, ec |-> 26, centres |-> {6, 28, 50}] >>

Total(lengths) == FoldLeft(LAMBDA n, l : n + l, 0, lengths)
DataCodewords(v) == Total(Version[v].blocks)
CountBits(v) == IF v < 10 THEN 8 ELSE 16

\* A number as bits, the most significant first; and zeros.
BitsOf(n, length) == [i \in 1..length |-> (n \div 2^(length - i)) % 2]
Zeros(length) == [i \in 1..length |-> 0]

\* The parts at the places of a list, where they have so many.
Arranged(parts, places) ==
    LET present == SelectSeq(places, LAMBDA p : p[2] <= Len(parts[p[1]]))
    IN SubSeq([k \in DOMAIN present |-> parts[present[k][1]][present[k][2]]], 1, Len(present))
\* One after the other, and one of each in turn; none is longer than n.
InRow(parts, n) ==
    Arranged(parts, [k \in 1..(n * Len(parts)) |-> <<((k - 1) \div n) + 1, ((k - 1) % n) + 1>>])
InTurn(parts, n) ==
    LET m == Len(parts)
    IN Arranged(parts, [k \in 1..(n * m) |-> <<((k - 1) % m) + 1, ((k - 1) \div m) + 1>>])

\* utf8Bytes: a lead byte and three at most that continue it, six bits each.
Utf8(point) ==
    LET sixes(n) == [i \in 1..n |-> 128 + ((point \div 64^(n - i)) % 64)]
    IN CASE point < 128 -> <<point>>
         [] point \in 128..2047 -> <<192 + (point \div 64)>> \o sixes(1)
         [] point \in 2048..65535 -> <<224 + (point \div 4096)>> \o sixes(2)
         [] OTHER -> <<240 + (point \div 262144)>> \o sixes(3)

Payload(text) == InRow([i \in DOMAIN text |-> Utf8(text[i])], 4)

\* selectVersion
Fits(v, payload) == 4 + CountBits(v) + 8 * Len(payload) <= 8 * DataCodewords(v)
Fitting(payload) == {v \in DOMAIN Version : Fits(v, payload)}

\* The i-th byte of a stream of bits.
ByteAt(bits, i) == {e \in 0..7 : bits[8 * i - e] = 1}

BuildCodewords(payload, v) ==
    LET head == <<0, 1, 0, 0>> \o BitsOf(Len(payload), CountBits(v))
                  \o InRow([i \in DOMAIN payload |-> BitsOf(payload[i], 8)], 8)
        ended == head \o Zeros(Min({4, 8 * DataCodewords(v) - Len(head)}))
        whole == ended \o Zeros((8 - (Len(ended) % 8)) % 8)
        bytes == Len(whole) \div 8
    IN SubSeq([i \in 1..DataCodewords(v) |-> IF i <= bytes THEN ByteAt(whole, i)
                                             ELSE IF i % 2 = 1 THEN {7, 6, 5, 3, 2} ELSE {4, 0}],
              1, DataCodewords(v))

\* multiply, by the powers of x (EXP) modulo x^8 + x^4 + x^3 + x^2 + 1.
Plus(p, q) == (p \ q) \cup (q \ p)
Doubled(p) == LET s == {e + 1 : e \in p} IN IF 8 \in s THEN Plus(s, {8, 4, 3, 2, 0}) ELSE s
Product(p, q) ==
    LET once == Doubled(p)  twice == Doubled(once)  third == Doubled(twice)
        fourth == Doubled(third)  fifth == Doubled(fourth)  sixth == Doubled(fifth)
        shifted == <<p, once, twice, third, fourth, fifth, sixth, Doubled(sixth)>>
    IN {e \in 0..7 : Cardinality({d \in q : e \in shifted[d + 1]}) % 2 = 1}

RECURSIVE Power(_)
Power(k) == IF k < 8 THEN {k} ELSE Product(Power(k \div 2), Power(k - (k \div 2)))
Exp == SubSeq([k \in 1..255 |-> Power(k - 1)], 1, 255)

\* Of coefficients in descending powers; SubSeq evaluates them once.
Sum(p, q) == SubSeq([i \in DOMAIN p |-> Plus(p[i], q[i])], 1, Len(p))
Scaled(p, factor) == SubSeq([i \in DOMAIN p |-> Product(p[i], factor)], 1, Len(p))
Nought(length) == [i \in 1..length |-> {}]

BlocksOf(codewords, v) ==
    LET lengths == Version[v].blocks
    IN [b \in DOMAIN lengths |->
          LET before == Total(SubSeq(lengths, 1, b - 1))
          IN SubSeq(codewords, before + 1, before + lengths[b])]

-----------------------------------------------------------------------------
(* Modules *)

SideOf(v) == 17 + 4 * v
Far(a, b) == Max({a, b}) - Min({a, b})

\* What is drawn: where, and which of it is dark.  A later pattern covers an earlier one.
Pattern(at, dark) == [at |-> at, dark |-> dark \cap at]
Over(p, under) == Pattern(under.at \cup p.at, (under.dark \ p.at) \cup p.dark)

\* Around a centre: the finder with its separator, and the alignment pattern.
Ring(side, row, column, radius) ==
    LET near(n) == {i \in (n - radius)..(n + radius) : i >= 0 /\ i < side}
    IN {m \in near(row) \X near(column) : Max({Far(m[1], row), Far(m[2], column)}) = radius}
Finder(side, row, column) ==
    Pattern(UNION {Ring(side, row, column, n) : n \in 0..4},
            UNION {Ring(side, row, column, n) : n \in {0, 1, 3}})
Alignment(side, row, column) ==
    Pattern(UNION {Ring(side, row, column, n) : n \in 0..2},
            UNION {Ring(side, row, column, n) : n \in {0, 2}})
Timing(side) ==
    LET line == 8..(side - 9)
        both(s) == {<<6, i>> : i \in s} \cup {<<i, 6>> : i \in s}
    IN Pattern(both(line), both({i \in line : i % 2 = 0}))

\* The remainder of data * x^degree by a polynomial of that degree, over GF(2).
Remainder(data, degree, polynomial) ==
    FoldLeft(LAMBDA p, i : LET s == {e + 1 : e \in p}
                           IN IF degree \in s THEN Plus(s, polynomial) ELSE s,
             data, [i \in 1..degree |-> i])
Exponents(n, length) == {e \in 0..(length - 1) : (n \div 2^e) % 2 = 1}

VersionInformation(v) == {e + 12 : e \in Exponents(v, 6)}
                         \cup Remainder(Exponents(v, 6), 12, {12, 11, 10, 9, 8, 5, 2, 0})
VersionPattern(v) ==
    LET side == SideOf(v)
        both(bits) == {<<b \div 3, side - 11 + (b % 3)>> : b \in bits}
                      \cup {<<side - 11 + (b % 3), b \div 3>> : b \in bits}
    IN IF v < 7 THEN Pattern({}, {}) ELSE Pattern(both(0..17), both(VersionInformation(v)))

\* Level M is 00.
FormatInformation(mask) ==
    Plus({e + 10 : e \in Exponents(mask, 3)}
           \cup Remainder(Exponents(mask, 3), 10, {10, 8, 5, 4, 2, 1, 0}),
         Exponents(21522, 15))

\* applyFormatInformation: where bit b of either copy goes.
FirstCopy(b) == CASE b <= 5 -> <<8, b>>
                  [] b \in 6..7 -> <<8, b + 1>>
                  [] b = 8 -> <<7, 8>>
                  [] OTHER -> <<14 - b, 8>>
\* Fault: split 8/7.
SecondCopyLate(side, b) == IF b <= 7 THEN <<side - 1 - b, 8>> ELSE <<8, side - 15 + b>>

SecondCopy(side, b) == IF b <= 6 THEN <<side - 1 - b, 8>> ELSE <<8, side - 15 + b>>

FormatPattern(side, mask) ==
    Pattern({<<side - 8, 8>>} \cup {FirstCopy(b) : b \in 0..14} \cup {SecondCopy(side, b) : b \in 0..14},
            {<<side - 8, 8>>} \cup UNION {{FirstCopy(b), SecondCopy(side, b)} :
                                           b \in FormatInformation(mask)})

FormatArea(side) == {<<8, i>> : i \in 0..8} \cup {<<i, 8>> : i \in 0..8}
                    \cup {<<side - i, 8>> : i \in 1..8} \cup {<<8, side - i>> : i \in 1..8}

FunctionPatterns(v) ==
    LET side == SideOf(v)
        last == side - 7
        near == {<<6, 6>>, <<6, last>>, <<last, 6>>}
        centres == (Version[v].centres \X Version[v].centres) \ near
        corners == {Finder(side, 3, 3), Finder(side, 3, side - 4), Finder(side, side - 4, 3)}
        aligned == {Alignment(side, c[1], c[2]) : c \in centres}
        all(patterns) == Pattern(UNION {p.at : p \in patterns}, UNION {p.dark : p \in patterns})
        lined == Over(Timing(side), all(corners))
        drawn == Over(Pattern({<<side - 8, 8>>}, {<<side - 8, 8>>}), Over(all(aligned), lined))
    IN Over(VersionPattern(v), Pattern(drawn.at \cup FormatArea(side), drawn.dark))

\* Fault: the cursor steps over the timing column to 4.
RightsLate(side) == [k \in 1..((side - 1) \div 2) |-> side + 1 - 2 * k]

\* qrDataModulePositions: the right column of each pair; the timing column is stepped over.
Rights(side) == [k \in 1..((side - 1) \div 2) |->
                   LET right == side + 1 - 2 * k IN IF right <= 6 THEN right - 1 ELSE right]
Positions(v, reserved) ==
    LET side == SideOf(v)
        rights == Rights(side)
        all == [k \in 1..((side - 1) * side) |->
                  LET pair == ((k - 1) \div (2 * side)) + 1
                      step == ((k - 1) % (2 * side)) \div 2
                  IN <<IF pair % 2 = 1 THEN side - 1 - step ELSE step, rights[pair] - ((k - 1) % 2)>>]
    IN SelectSeq(all, LAMBDA m : m \notin reserved)

\* maskCondition
Flips(mask, r, c) ==
    CASE mask = 0 -> (r + c) % 2 = 0
      [] mask = 1 -> r % 2 = 0
      [] mask = 2 -> c % 3 = 0
      [] mask = 3 -> (r + c) % 3 = 0
      [] mask = 4 -> ((r \div 2) + (c \div 3)) % 2 = 0
      [] mask = 5 -> ((r * c) % 2) + ((r * c) % 3) = 0
      [] mask = 6 -> (((r * c) % 2) + ((r * c) % 3)) % 2 = 0
      [] OTHER -> (((r + c) % 2) + ((r * c) % 3)) % 2 = 0

\* placeData: a module beyond the last codeword is light before the mask.
DataModules(codewords, positions, mask) ==
    LET bit(k) == (k - 1) \div 8 < Len(codewords) /\ 7 - ((k - 1) % 8) \in codewords[(k - 1) \div 8 + 1]
        drawn == {k \in DOMAIN positions : bit(k) # Flips(mask, positions[k][1], positions[k][2])}
    IN {positions[k] : k \in drawn}

-----------------------------------------------------------------------------
CodeInit == print = [at |-> "none"]

\* encodeQrCode, up to interleave.
Encode(text) ==
    /\ print.at = "none"
    /\ LET payload == Payload(text)
           v == Min(Fitting(payload))
       IN print' = IF Fitting(payload) = {} THEN [at |-> "refused", text |-> text]
                   ELSE [at |-> "multiplying", text |-> text, version |-> v,
                         data |-> BlocksOf(BuildCodewords(payload, v), v), polynomial |-> <<{0}>>]

\* generatorPolynomial: a turn of its loop, by x - EXP[index].
Multiply ==
    /\ print.at = "multiplying"
    /\ LET p == print.polynomial
           index == Len(p)
       IN print' = IF index <= Version[print.version].ec
                   THEN [print EXCEPT !.polynomial = Sum(Append(p, {}), <<{}>> \o Scaled(p, Exp[index]))]
                   ELSE [at |-> "dividing", text |-> print.text, version |-> print.version,
                         data |-> print.data, polynomial |-> p,
                         parity |-> <<>>, remainder |-> Nought(index - 1), next |-> 1]

\* errorCorrection: a turn of its loop over the data of a block, and the end of a block.
Divide ==
    /\ print.at = "dividing"
    /\ LET block == print.data[Len(print.parity) + 1]
           factor == Plus(block[print.next], print.remainder[1])
           remainder == Sum(Append(Tail(print.remainder), {}), Scaled(Tail(print.polynomial), factor))
           parity == Append(print.parity, remainder)
       IN print' = CASE print.next < Len(block) ->
                          [print EXCEPT !.remainder = remainder, !.next = @ + 1]
                     [] print.next = Len(block) /\ Len(parity) < Len(print.data) ->
                          [print EXCEPT !.parity = parity, !.next = 1,
                                        !.remainder = Nought(Len(remainder))]
                     [] OTHER -> [at |-> "encoded", text |-> print.text, version |-> print.version,
                                  data |-> print.data, parity |-> parity]

\* The masks are tried in turn and the least penalty wins: any of them may.
Draw(mask) ==
    /\ print.at = "encoded"
    /\ LET v == print.version
           fixed == FunctionPatterns(v)
           codewords == InTurn(print.data, 44) \o InTurn(print.parity, 26)
           data == DataModules(codewords, Positions(v, fixed.at), mask)
           drawn == Over(FormatPattern(SideOf(v), mask),
                         Pattern(fixed.at \cup data, fixed.dark \cup data))
       IN print' = [at |-> "drawn", text |-> print.text, version |-> v, data |-> print.data,
                    parity |-> print.parity, dark |-> drawn.dark]

CodeNext ==
    \/ \E text \in Address : Encode(text)
    \/ Multiply
    \/ Divide
    \/ \E mask \in 0..7 : Draw(mask)

CodeSpec == CodeInit /\ [][CodeNext]_print

-----------------------------------------------------------------------------
(* How a scanner reads it, by the standard. *)

LargestText == <<14, 26, 42, 62, 84, 106, 122, 152, 180, 213>>
\* The bytes after a lead byte begin with 10; the lead byte says how many they are.
Continuing(bytes, i) == bytes[i] \div 64 = 2
PointAt(bytes, i) ==
    LET six(k) == bytes[i + k] % 64
    IN CASE bytes[i] < 128 -> bytes[i]
         [] bytes[i] \div 32 = 6 -> (bytes[i] % 32) * 64 + six(1)
         [] bytes[i] \div 16 = 14 -> (bytes[i] % 16) * 4096 + six(1) * 64 + six(2)
         [] OTHER -> (bytes[i] % 8) * 262144 + six(1) * 4096 + six(2) * 64 + six(3)
TextOf(bytes) ==
    LET leads == SelectSeq([i \in DOMAIN bytes |-> i], LAMBDA i : ~Continuing(bytes, i))
    IN [i \in DOMAIN leads |-> PointAt(bytes, leads[i])]
Size(text) == Len(text) + Cardinality({<<i, bound>> \in (DOMAIN text) \X {128, 2048, 65536} :
                                          text[i] >= bound})
SmallestFor(n) == {v \in DOMAIN LargestText : n <= LargestText[v] /\ \A w \in 1..(v - 1) : n > LargestText[w]}

\* A codeword polynomial vanishes at the first powers of x.
Vanishes(block, i) ==
    LET n == Len(block)
        terms == {<<k, d>> \in (1..n) \X (0..7) : d \in block[k]}
        term == [t \in terms |-> Exp[((i * (n - t[1]) + t[2]) % 255) + 1]]
    IN \A e \in 0..7 : Cardinality({t \in terms : e \in term[t]}) % 2 = 0
Correctable(data, parity) == \A i \in 0..(Len(parity) - 1) : Vanishes(data \o parity, i)

\* The format beside the first finder, and beside the other two: 15 modules off the timing lines.
FirstPath == SelectSeq([i \in 1..9 |-> <<8, i - 1>>] \o [i \in 1..8 |-> <<8 - i, 8>>],
                       LAMBDA m : 6 \notin {m[1], m[2]})
SecondPath(side) == [i \in 1..7 |-> <<side - i, 8>>] \o [i \in 1..8 |-> <<8, side - 9 + i>>]
ReadBits(dark, path) == {i - 1 : i \in {j \in DOMAIN path : path[j] \in dark}}

\* Where the finders, timing lines, alignment patterns, format and version are.
IsFunction(v, r, c) ==
    LET side == SideOf(v)
        centres == Version[v].centres
        corner(a, b) == a <= 8 /\ b <= 8
    IN \/ corner(r, c) \/ corner(r, side - c) \/ corner(side - r, c)
       \/ 6 \in {r, c}
       \/ \E a, b \in centres : /\ Far(a, r) <= 2 /\ Far(b, c) <= 2
                                /\ <<a, b>> \notin {<<6, 6>>, <<6, Max(centres)>>, <<Max(centres), 6>>}
       \/ /\ v >= 7
          /\ \/ r <= 5 /\ c \in (side - 11)..(side - 9)
             \/ c <= 5 /\ r \in (side - 11)..(side - 9)

\* Two columns at a time from the right, the timing column not counted, up and down.
ScanOrder(v) ==
    LET side == SideOf(v)
        nth(n) == LET c == side - 1 - n IN IF c <= 6 THEN c - 1 ELSE c
        all == [k \in 1..((side - 1) * side) |->
                  LET pair == (k - 1) \div (2 * side)
                      down == ((k - 1) \div 2) % side
                  IN <<IF pair % 2 = 1 THEN down ELSE side - 1 - down, nth(2 * pair + ((k - 1) % 2))>>]
    IN SelectSeq(all, LAMBDA m : ~IsFunction(v, m[1], m[2]))

\* Where codeword j of block b comes: n apart, the longer blocks' last after all others'.
DataPlace(v, b, j) ==
    LET lengths == Version[v].blocks
        short == Min(Range(lengths))
    IN IF j <= short THEN (j - 1) * Len(lengths) + b
       ELSE short * Len(lengths) + Cardinality({x \in 1..b : lengths[x] > short})
ParityPlace(v, b, j) == DataCodewords(v) + (j - 1) * Len(Version[v].blocks) + b

ReadFormat(code) ==
    LET format == ReadBits(code.dark, FirstPath)
        plain == Plus(format, Exponents(21522, 15))
    IN [agree |-> ReadBits(code.dark, SecondPath(SideOf(code.version))) = format,
        level |-> plain \cap {13, 14},
        mask |-> CHOOSE n \in 0..7 : Exponents(n, 3) = {e - 10 : e \in plain \cap 10..12}]

ReadBlocks(code) ==
    LET v == code.version
        order == ScanOrder(v)
        mask == ReadFormat(code).mask
        one(k) == (order[k] \in code.dark) # Flips(mask, order[k][1], order[k][2])
        codeword(place) == {e \in 0..7 : one(8 * place - e)}
        lengths == Version[v].blocks
    IN [data |-> [b \in DOMAIN lengths |->
                    SubSeq([j \in 1..lengths[b] |-> codeword(DataPlace(v, b, j))], 1, lengths[b])],
        parity |-> [b \in DOMAIN lengths |-> [j \in 1..Version[v].ec |-> codeword(ParityPlace(v, b, j))]]]

\* Byte mode, a count of 8 or 16 bits, and as many bytes.
ReadText(v, data) ==
    LET number(byte) == MapThenSumSet(LAMBDA e : 2^e, byte)
        codewords == InRow(data, 44)
        bytes == SubSeq([i \in DOMAIN codewords |-> number(codewords[i])], 1, Len(codewords))
        nibbles(i) == (bytes[i] % 16) * 16 + (bytes[i + 1] \div 16)
        count == IF v < 10 THEN nibbles(1) ELSE nibbles(1) * 256 + nibbles(2)
        skip == IF v < 10 THEN 1 ELSE 2
    IN [mode |-> bytes[1] \div 16, count |-> count,
        text |-> TextOf(SubSeq([i \in 1..count |-> nibbles(skip + i)], 1, count))]

(* What is printed for a venue is its address, as a scanner reads it: in the        *)
(* smallest version that holds it, with both copies of the format, and with parity   *)
(* that corrects each block; and only an address no version holds is refused.        *)
PrintedIsReadable ==
    /\ print.at = "refused" => SmallestFor(Size(print.text)) = {}
    /\ print.at = "encoded" => \A b \in DOMAIN print.data : Correctable(print.data[b], print.parity[b])
    /\ print.at = "drawn" =>
         LET format == ReadFormat(print)
             read == ReadText(print.version, print.data)
         IN /\ format.agree /\ format.level = {}
            /\ ReadBlocks(print) = [data |-> print.data, parity |-> print.parity]
            /\ read.mode = 4 /\ read.text = print.text
            /\ print.version \in SmallestFor(read.count)
=============================================================================

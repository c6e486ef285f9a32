------------------------------ MODULE InetText -------------------------------
(***************************************************************************)
(* The conversions between addresses and text of unpv13e's libfree:        *)
(* inet_pton(), inet_ntop() and inet_aton().  The text is a sequence of    *)
(* characters: a digit is its value, whatever its case, and the two        *)
(* separators have numbers of their own.  An IPv6 address is its eight     *)
(* words, an IPv4 address its four bytes; <<>> is a text that is refused.  *)
(* inet_ntop.c is the writer that inet_pton.c belongs to; its body is      *)
(* compiled only where the system has no inet_ntop() of its own and the    *)
(* "notdef" around it is removed.                                          *)
(*                                                                         *)
(* A behaviour converts one input: an address to text, a text of groups    *)
(* and colons to an address, or a text of numbers and dots to an address.  *)
(***************************************************************************)
EXTENDS Integers, Sequences, SequencesExt

CONSTANTS
    ItxWords,       \* words of which addresses are made
    ItxTokens,      \* texts of the first group of a text for inet_pton6()
    ItxNumbers,     \* texts of the numbers of a text for inet_pton4()
    ItxMaxGroups    \* bound: groups on one side of "::"

ASSUME ItxAssumption ==
    ItxWords \subseteq 0 .. 65535 /\ ItxTokens \subseteq Seq(0 .. 15) /\ ItxNumbers \subseteq Seq(0 .. 9)

VARIABLES
    itxKind,        \* "none", "address", "colons", "dots"
    itxIn,          \* the input
    itxOut          \* what the conversion returns

itxVars == <<itxKind, itxIn, itxOut>>

Dot == 16
Colon == 17

ItxInit == itxKind = "none" /\ itxIn = <<>> /\ itxOut = <<>>

\* Mutant: no test for values above 255.
ItxByteAny(s, ch) ==
    LET n == Len(s.tmp)
        octets == IF s.saw_digit THEN s.octets ELSE s.octets + 1
    IN  IF ~s.ok THEN s
        ELSE IF ch <= 9 /\ octets <= 4
        THEN [ok |-> TRUE, saw_digit |-> TRUE, octets |-> octets,
              tmp |-> [s.tmp EXCEPT ![n] = @ * 10 + ch]]
        ELSE IF ch = Dot /\ s.saw_digit /\ s.octets # 4
        THEN [s EXCEPT !.saw_digit = FALSE, !.tmp = Append(@, 0)]
        ELSE [s EXCEPT !.ok = FALSE]

\* One character in the loop of inet_pton4(); tmp is written up to tp.
ItxByte(s, ch) ==
    LET n == Len(s.tmp)
        new == s.tmp[n] * 10 + ch
        octets == IF s.saw_digit THEN s.octets ELSE s.octets + 1
    IN  IF ~s.ok THEN s
        ELSE IF ch <= 9 /\ new <= 255 /\ octets <= 4
        THEN [ok |-> TRUE, saw_digit |-> TRUE, octets |-> octets, tmp |-> [s.tmp EXCEPT ![n] = new]]
        ELSE IF ch = Dot /\ s.saw_digit /\ s.octets # 4
        THEN [s EXCEPT !.saw_digit = FALSE, !.tmp = Append(@, 0)]
        ELSE [s EXCEPT !.ok = FALSE]

inet_pton4(src) ==
    LET end == FoldLeft(ItxByte, [ok |-> TRUE, saw_digit |-> FALSE, octets |-> 0, tmp |-> <<0>>], src)
    IN  IF end.ok /\ end.octets = 4 THEN end.tmp ELSE <<>>

\* Character i in the loop of inet_pton6(): a digit, a colon that ends a
\* group or is the second of two, or the dot that says that an IPv4 address
\* began at curtok and is the rest of the text.
ItxWord(src, s, i) ==
    LET ch == src[i]
        val == s.val * 16 + ch
        quad == inet_pton4(SubSeq(src, s.curtok, Len(src)))
    IN  IF ~s.ok \/ s.over THEN s
        ELSE IF ch <= 15 /\ val <= 65535 THEN [s EXCEPT !.val = val, !.saw_xdigit = TRUE]
        ELSE IF ch = Colon /\ ~s.saw_xdigit /\ s.colonp = -1
        THEN [s EXCEPT !.curtok = i + 1, !.colonp = Len(s.tmp)]
        ELSE IF ch = Colon /\ s.saw_xdigit /\ Len(s.tmp) < 8
        THEN [s EXCEPT !.curtok = i + 1, !.tmp = Append(@, s.val), !.saw_xdigit = FALSE, !.val = 0]
        ELSE IF ch = Dot /\ Len(s.tmp) <= 6 /\ quad # <<>>
        THEN [s EXCEPT !.tmp = @ \o <<quad[1] * 256 + quad[2], quad[3] * 256 + quad[4]>>,
                       !.saw_xdigit = FALSE, !.over = TRUE]
        ELSE [s EXCEPT !.ok = FALSE]

\* The shift by hand: the words from colonp on move to the end one by one,
\* from the last, and each place they leave is cleared, also when a word has
\* been moved to where it is.
ItxShift(tmp, colonp) ==
    LET n == Len(tmp) - colonp
    IN  [i \in 1 .. 8 |-> IF i <= colonp THEN tmp[i]
                          ELSE IF Len(tmp) = 8 \/ i <= 8 - n THEN 0 ELSE tmp[i - 8 + Len(tmp)]]

inet_pton6(src) ==
    LET leading == Len(src) > 0 /\ src[1] = Colon
        from == IF leading THEN 2 ELSE 1
        start == [ok |-> leading => Len(src) > 1 /\ src[2] = Colon, over |-> FALSE, tmp |-> <<>>,
                  colonp |-> -1, curtok |-> from, saw_xdigit |-> FALSE, val |-> 0]
        end == FoldLeft(LAMBDA s, i : ItxWord(src, s, i), start,
                        [j \in 1 .. Len(src) - from + 1 |-> from + j - 1])
        fits == end.ok /\ (end.saw_xdigit => Len(end.tmp) < 8)
        tmp == IF end.saw_xdigit THEN Append(end.tmp, end.val) ELSE end.tmp
    IN  IF ~fits THEN <<>>
        ELSE IF end.colonp # -1 THEN ItxShift(tmp, end.colonp)
        ELSE IF Len(tmp) = 8 THEN tmp ELSE <<>>

\* inet_aton(): empty numbers are zeros, and so are the ones left out.
inet_aton(cp) ==
    LET step(s, ch) ==
            IF ~s.ok THEN s
            ELSE IF ch <= 9 THEN [s EXCEPT !.acc = @ * 10 + ch]
            ELSE IF ch = Dot /\ s.acc <= 255 /\ Len(s.addr) < 3
            THEN [s EXCEPT !.addr = Append(@, s.acc), !.acc = 0]
            ELSE [s EXCEPT !.ok = FALSE]
        end == FoldLeft(step, [ok |-> TRUE, acc |-> 0, addr |-> <<>>], cp)
    IN  IF end.ok /\ end.acc <= 255
        THEN Append(end.addr, end.acc) \o [i \in 1 .. 3 - Len(end.addr) |-> 0]
        ELSE <<>>

\* %x and %u.
ItxDigits(v, base) ==
    LET all == [i \in 1 .. 5 |-> (v \div base^(5 - i)) % base]
        zeros == SelectInSeq(all, LAMBDA d : d # 0)
    IN  IF v = 0 THEN <<0>> ELSE SubSeq(all, zeros, 5)

\* inet_ntop4().
inet_ntop4(src) ==
    ItxDigits(src[1], 10) \o <<Dot>> \o ItxDigits(src[2], 10) \o <<Dot>> \o
    ItxDigits(src[3], 10) \o <<Dot>> \o ItxDigits(src[4], 10)

\* best of inet_ntop6(): the first longest run of zeros, base from 1; none
\* has the length 0.
ItxBest(words) ==
    LET run[i \in 1 .. 9] == IF i = 9 \/ words[i] # 0 THEN 0 ELSE run[i + 1] + 1
        longest == CHOOSE n \in 0 .. 8 : (\E i \in 1 .. 9 : run[i] = n) /\ \A i \in 1 .. 9 : run[i] <= n
    IN  IF longest < 2 THEN [base |-> 0, len |-> 0]
        ELSE [base |-> CHOOSE i \in 1 .. 8 : run[i] = longest /\ \A j \in 1 .. i - 1 : run[j] < longest,
              len |-> longest]

\* What inet_ntop6() writes for word i.
ItxGroup(words, best, i) ==
    LET inside == best.len > 0 /\ i >= best.base /\ i < best.base + best.len
        mapped == best.base = 1 /\ (best.len = 6 \/ (best.len = 5 /\ words[6] = 65535))
        bytes == <<words[7] \div 256, words[7] % 256, words[8] \div 256, words[8] % 256>>
    IN  IF inside THEN (IF i = best.base THEN <<Colon>> ELSE <<>>)
        ELSE IF mapped /\ i = 8 THEN <<>>
        ELSE (IF i # 1 THEN <<Colon>> ELSE <<>>)
             \o (IF mapped /\ i = 7 THEN inet_ntop4(bytes) ELSE ItxDigits(words[i], 16))

inet_ntop6(words) ==
    LET best == ItxBest(words)
    IN  FlattenSeq([i \in 1 .. 8 |-> ItxGroup(words, best, i)])
        \o (IF best.len > 0 /\ best.base + best.len = 9 THEN <<Colon>> ELSE <<>>)

-----------------------------------------------------------------------------

\* A text of k groups, "::" and m groups, an IPv4 address at its end and a
\* colon after it, as shape says; its first group is the token.
ItxJoin(groups, sep) ==
    FlattenSeq([i \in DOMAIN groups |-> IF i = 1 THEN groups[i] ELSE <<sep>> \o groups[i]])

ItxShapes ==
    [k : 0 .. ItxMaxGroups, m : 0 .. ItxMaxGroups, gap : BOOLEAN, quad : BOOLEAN, colon : BOOLEAN,
     token : ItxTokens]

ItxText(x) ==
    LET group(i) == IF i = 1 THEN x.token ELSE <<i % 16>>
        quad == IF x.quad THEN <<<<1, Dot, 2, Dot, 3, Dot, 4>>>> ELSE <<>>
        left == [i \in 1 .. x.k |-> group(i)]
        right == [i \in 1 .. x.m |-> group(x.k + i)] \o quad
    IN  (IF x.gap THEN ItxJoin(left, Colon) \o <<Colon, Colon>> \o ItxJoin(right, Colon)
         ELSE ItxJoin(left \o right, Colon))
        \o (IF x.colon THEN <<Colon>> ELSE <<>>)

ItxConvertAddress ==
    \E a \in [1 .. 8 -> ItxWords] :
        itxKind' = "address" /\ itxIn' = a /\ itxOut' = inet_ntop6(a)

ItxConvertColons ==
    \E x \in ItxShapes :
        itxKind' = "colons" /\ itxIn' = x /\ itxOut' = inet_pton6(ItxText(x))

ItxConvertDots ==
    \E n \in 1 .. 5 : \E numbers \in [1 .. n -> ItxNumbers] :
        itxKind' = "dots" /\ itxIn' = numbers /\ itxOut' = inet_pton4(ItxJoin(numbers, Dot))

ItxNext == itxKind = "none" /\ (ItxConvertAddress \/ ItxConvertColons \/ ItxConvertDots)

-----------------------------------------------------------------------------

(***************************************************************************)
(* inet_pton() reads back what inet_ntop() has written, and the text fits  *)
(* tmp[], 46 bytes with its end.                                           *)
(***************************************************************************)
ItxReadsBack == itxKind = "address" => inet_pton6(itxOut) = itxIn /\ Len(itxOut) < 46

(***************************************************************************)
(* inet_pton() takes a text of RFC 1884 for the address it means.  It      *)
(* takes two kinds of texts more: with a colon at the end, and with "::"   *)
(* and eight words, where the words after the "::" are cleared.            *)
(***************************************************************************)
ItxMeaning(x) ==
    LET val[i \in 0 .. Len(x.token)] == IF i = 0 THEN 0 ELSE val[i - 1] * 16 + x.token[i]
        group(i) == IF i = 1 THEN val[Len(x.token)] ELSE i % 16
        quad == IF x.quad THEN <<258, 772>> ELSE <<>>
        left == [i \in 1 .. x.k |-> group(i)]
        right == [i \in 1 .. x.m |-> group(x.k + i)] \o quad
        zeros == [i \in 1 .. 8 - Len(left) - Len(right) |-> 0]
        all == IF x.gap THEN left \o zeros \o right ELSE left \o right
        full == Len(left) + Len(right) = 8
        right_size == IF x.gap THEN Len(left) + Len(right) <= 7 ELSE full
    IN  [valid |-> right_size /\ ~x.colon /\ (x.k + x.m > 0 => val[Len(x.token)] <= 65535),
         address |-> all, full |-> full]

ItxColons ==
    itxKind = "colons" /\ (itxIn.gap \/ itxIn.m = 0) =>
        LET meant == ItxMeaning(itxIn)
        IN  IF meant.valid THEN itxOut = meant.address
            ELSE itxOut # <<>> =>
                    \/ itxIn.colon
                    \/ itxIn.gap /\ meant.full /\ \A i \in itxIn.k + 1 .. 8 : itxOut[i] = 0

(***************************************************************************)
(* inet_pton4() takes four numbers up to 255, none of them missing, and    *)
(* inet_aton() takes what it takes for the same address.                   *)
(***************************************************************************)
ItxDots ==
    itxKind = "dots" =>
        LET value(t) == FoldLeft(LAMBDA v, d : v * 10 + d, 0, t)
            numbers == [i \in DOMAIN itxIn |-> value(itxIn[i])]
            valid == Len(itxIn) = 4 /\ \A i \in DOMAIN itxIn : itxIn[i] # <<>> /\ numbers[i] <= 255
        IN  /\ itxOut = IF valid THEN numbers ELSE <<>>
            /\ valid => inet_aton(ItxJoin(itxIn, Dot)) = numbers

\* The conversions of addresses as a whole.
ItxSafe ==
    /\ ItxReadsBack
    /\ ItxColons
    /\ ItxDots
=============================================================================

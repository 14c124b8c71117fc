------------------------------ MODULE Amounts ------------------------------
(* Amounts as people write and read them: amount.Parse                       *)
(* (internal/amount/amount.go), formatAmount (internal/web/server.go) and    *)
(* parsePercentBPS (cmd/qday-pool/main.go).  A text is a sequence of digits  *)
(* of base Base (ten), points, blanks, and other characters.                 *)
EXTENDS Integers, SequencesExt

CONSTANT Base

ASSUME AmountsAssumption == Base \in Nat \ {0, 1}

Point == -1
Other == -2          \* a sign, a letter
Blank == -3
Invalid == -1        \* the error result

IsNumber(s) == s # <<>> /\ ToSet(s) \subseteq 0..(Base - 1)
Value(s) == FoldLeft(LAMBDA v, digit : v * Base + digit, 0, s)
Zeros(n) == [i \in 1..n |-> 0]

\* The unit that the node reports: a one and as many zeros as it has decimals.
Unit(decimals) == Value(<<1>> \o Zeros(decimals))

\* The text before and after its first point, as strings.SplitN makes them.
Whole(text) == SelectInSeq(text, LAMBDA c : c = Point) - 1
Parts(text) ==
    IF Point \in ToSet(text)
    THEN <<SubSeq(text, 1, Whole(text)), SubSeq(text, Whole(text) + 2, Len(text))>>
    ELSE <<text>>

\* No sign, at most one point, digits on both its sides, no leading zeros.
Canonical(parts) ==
    /\ \A i \in DOMAIN parts : IsNumber(parts[i])
    /\ Len(parts[1]) > 1 => parts[1][1] # 0

\* strings.TrimSpace: the text without the blanks around it.
TrimSpace(text) ==
    LET kept == {i \in DOMAIN text : text[i] # Blank}
    IN IF kept = {} THEN <<>> ELSE SubSeq(text, Min(kept), Max(kept))

\* Slip: the fraction is added without filling it up to the unit.
DecimalUnfilled(text, decimals) ==
    LET parts == Parts(text)
    IN IF ~Canonical(parts) THEN Invalid
       ELSE Value(parts[1]) * Unit(decimals) + (IF Len(parts) = 1 THEN 0 ELSE Value(parts[2]))

\* Atomic units of a trimmed text, for a unit of so many decimals.
Decimal(text, decimals) ==
    LET parts == Parts(text)
        whole == Value(parts[1]) * Unit(decimals)
    IN IF ~Canonical(parts) THEN Invalid
       ELSE IF Len(parts) = 1 THEN whole
       ELSE IF Len(parts[2]) > decimals THEN Invalid
       ELSE whole + Value(parts[2] \o Zeros(decimals - Len(parts[2])))

Parse(text, decimals) == Decimal(TrimSpace(text), decimals)

\* A percentage with up to two decimals, in hundredths; blanks are not trimmed.
ParsePercentBPS(text) ==
    LET parts == Parts(text)
        filled == parts[2] \o Zeros(2 - Len(parts[2]))
        bps == Value(parts[1]) * Unit(2) + (IF Len(parts) = 1 THEN 0 ELSE Value(filled))
    IN IF \/ \E i \in DOMAIN parts : ~IsNumber(parts[i])
          \/ Len(parts) = 2 /\ Len(parts[2]) > 2
          \/ bps > Unit(4)
       THEN Invalid ELSE bps

\* big.Int.String: the digits of n, without leading zeros.
Digits(n) ==
    LET length == CHOOSE k \in 1..(n + 1) : n < Unit(k) /\ (k > 1 => n >= Unit(k - 1))
    IN [i \in 1..length |-> (n \div Unit(length - i)) % Base]

TrimRight(s) ==
    LET kept == {k \in 0..Len(s) : \A i \in (k + 1)..Len(s) : s[i] = 0}
    IN SubSeq(s, 1, CHOOSE k \in kept : \A other \in kept : k <= other)

\* What the dashboard shows for n atomic units.
FormatAmount(n, decimals) ==
    LET rest == n % Unit(decimals)
        fraction == Zeros(decimals - Len(Digits(rest))) \o Digits(rest)
    IN IF rest = 0 THEN Digits(n \div Unit(decimals))
       ELSE Digits(n \div Unit(decimals)) \o <<Point>> \o TrimRight(fraction)
=============================================================================

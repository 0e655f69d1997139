----------------------------- MODULE CASerials -----------------------------
(***************************************************************************)
(* Serial and CRL numbers as the program writes them: hexadecimal, lower   *)
(* case, padded to two digits, in the counter files, in index.json, in the *)
(* names under certs/ and in what it prints.  The base is a parameter: 16  *)
(* in the program; a smaller one reaches longer numbers with fewer         *)
(* certificates.                                                           *)
(***************************************************************************)
EXTENDS Naturals, SequencesExt

CONSTANTS
    Base,        \* 16 in the program
    FirstLetter  \* the digits from here on are letters and have two cases; 10 in the program

ASSUME SerialsAssumption == Base \in Nat /\ Base >= 2 /\ FirstLetter \in Nat

Digits[n \in Nat] ==
    IF n < Base THEN << n >> ELSE Append(Digits[n \div Base], n % Base)

(* A text of digits; upper says how its letters, if it has any, are spelled. *)
HasLetter(digits) == \E i \in DOMAIN digits : digits[i] >= FirstLetter

Text(length) ==
    {t \in [digits : BoundedSeq(0 .. Base - 1, length) \ {<< >>}, upper : BOOLEAN] :
        t.upper => HasLetter(t.digits)}

(* Mutant: no padding. *)
FormatSerialUnpadded(n) == [digits |-> Digits[n], upper |-> FALSE]

FormatSerial(n) ==
    [ digits |-> IF n < Base THEN << 0, n >> ELSE Digits[n],
      upper  |-> FALSE ]

(* strconv.ParseInt, of a text the program wrote itself. *)
ParseSerial(t) ==
    LET value[i \in 0 .. Len(t.digits)] ==
            IF i = 0 THEN 0 ELSE value[i - 1] * Base + t.digits[i]
    IN  value[Len(t.digits)]

ToLower(t) == [t EXCEPT !.upper = FALSE]

=============================================================================

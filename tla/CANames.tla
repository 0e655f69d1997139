------------------------------ MODULE CANames ------------------------------
(***************************************************************************)
(* Distinguished names and subject alternative names (dn.go).  A text is a *)
(* sequence of tokens: a comma, an equals sign, a blank, a prefix of a     *)
(* SAN, or a word, which is a type of attribute in some spelling or part   *)
(* of a value.                                                             *)
(***************************************************************************)
EXTENDS Integers, SequencesExt

CONSTANTS
    Words,      \* what values are made of
    Addresses,  \* the texts net.ParseIP accepts
    Sorted(_)   \* a sequence of values in the order of a DER SET OF

Comma  == ","
Equals == "="
Blank  == "blank"

LowerCase == [CN |-> "cn", O |-> "o", OU |-> "ou", L |-> "l", ST |-> "st", C |-> "c"]

Attributes == DOMAIN LowerCase

Tokens ==
    {Comma, Equals, Blank, "DNS:", "IP:"} \cup Attributes
        \cup {LowerCase[a] : a \in Attributes} \cup Words

Text == Seq(Tokens)

(* net.ParseIP("") is nil. *)
ASSUME AddressesAssumption == Addresses \subseteq Text \ {<< >>}

(* pkix.Name: the values of each attribute; at most one CN. *)
EmptyName == [a \in Attributes |-> << >>]

----------------------------------------------------------------------------
(* Package strings, and append under a condition *)

(* The elements of s at the positions in I. *)
Pick(s, I) ==
    LET upTo[n \in 0 .. Len(s)] ==
            IF n = 0 THEN << >>
            ELSE IF n \in I THEN Append(upTo[n - 1], s[n]) ELSE upTo[n - 1]
    IN  upTo[Len(s)]

(* strings.Split at commas *)
Split(s) ==
    LET upTo[n \in 0 .. Len(s)] ==
            IF n = 0 THEN << << >> >>
            ELSE IF s[n] = Comma THEN Append(upTo[n - 1], << >>)
            ELSE [upTo[n - 1] EXCEPT ![Len(upTo[n - 1])] = Append(@, s[n])]
    IN  upTo[Len(s)]

(* strings.Join with commas *)
JoinWithCommas(texts) ==
    LET upTo[n \in 0 .. Len(texts)] ==
            IF n = 0 THEN << >>
            ELSE IF n = 1 THEN texts[1]
            ELSE upTo[n - 1] \o << Comma >> \o texts[n]
    IN  upTo[Len(texts)]

TrimSpace(s) ==
    LET kept == {i \in DOMAIN s : s[i] # Blank}
    IN  IF kept = {} THEN << >> ELSE SubSeq(s, Min(kept), Max(kept))

Components(s) == [i \in DOMAIN Split(s) |-> TrimSpace(Split(s)[i])]

----------------------------------------------------------------------------
(* ParseDN *)

EqualsSigns(c) == {i \in DOMAIN c : c[i] = Equals}

(* Mutant: the last equals sign of a component separates type and value. *)
EqualsLast(c) == IF EqualsSigns(c) = {} THEN 0 ELSE Max(EqualsSigns(c))

EqualsAt(c) == IF EqualsSigns(c) = {} THEN 0 ELSE Min(EqualsSigns(c))

TypeText(c)  == TrimSpace(SubSeq(c, 1, EqualsAt(c) - 1))
ValueText(c) == TrimSpace(SubSeq(c, EqualsAt(c) + 1, Len(c)))

IsType(c, a) == TypeText(c) \in {<< a >>, << LowerCase[a] >>}

(* Empty components are skipped; they are of no type. *)
ComponentOK(c) ==
    \/ c = << >>
    \/ /\ EqualsAt(c) > 0
       /\ ValueText(c) # << >>
       /\ \E a \in Attributes : IsType(c, a)

(* The last CN given is the common name. *)
LastOnly(values) == IF values = << >> THEN << >> ELSE << values[Len(values)] >>

(* Mutant: every value of an attribute overwrites the one before. *)
ValuesOfOverwritten(cs, a) ==
    LastOnly(Pick([i \in DOMAIN cs |-> ValueText(cs[i])],
                  {i \in DOMAIN cs : IsType(cs[i], a)}))

ValuesOf(cs, a) ==
    Pick([i \in DOMAIN cs |-> ValueText(cs[i])], {i \in DOMAIN cs : IsType(cs[i], a)})

ParseDN(s) ==
    LET cs == Components(s)
    IN  [ ok   |-> TrimSpace(s) # << >> /\ \A i \in DOMAIN cs : ComponentOK(cs[i]),
          name |-> [a \in Attributes |->
                        IF a = "CN" THEN LastOnly(ValuesOf(cs, a)) ELSE ValuesOf(cs, a)] ]

----------------------------------------------------------------------------
(* FormatDN *)

Pairs(name, a) == [j \in DOMAIN name[a] |-> [type |-> a, value |-> name[a][j]]]

(* Mutant: an attribute is parsed and not printed. *)
ListingNoProvince(name) ==
    Pairs(name, "CN") \o Pairs(name, "O") \o Pairs(name, "OU")
        \o Pairs(name, "L") \o Pairs(name, "C")

Listing(name) ==
    Pairs(name, "CN") \o Pairs(name, "O") \o Pairs(name, "OU")
        \o Pairs(name, "L") \o Pairs(name, "ST") \o Pairs(name, "C")

FormatDN(name) ==
    LET listing == Listing(name)
    IN  JoinWithCommas(
            [i \in DOMAIN listing |-> << listing[i].type, Equals >> \o listing[i].value])

(* What encoding a name in a request and parsing it again makes of it: the *)
(* values of one attribute are a SET OF, which DER sorts.                  *)
Encoded(name) == [a \in Attributes |-> Sorted(name[a])]

----------------------------------------------------------------------------
(* ParseSANs *)

SanOK(c) ==
    \/ c = << >>
    \/ c[1] = "DNS:" /\ Tail(c) # << >>
    \/ c[1] = "IP:" /\ Tail(c) \in Addresses

SansAfter(prefix, cs) ==
    Pick([i \in DOMAIN cs |-> SubSeq(cs[i], 2, Len(cs[i]))],
         {i \in DOMAIN cs : cs[i] # << >> /\ cs[i][1] = prefix})

ParseSANs(s) ==
    LET cs == Components(s)
    IN  [ ok  |-> \A i \in DOMAIN cs : SanOK(cs[i]),
          dns |-> SansAfter("DNS:", cs),
          ips |-> SansAfter("IP:", cs) ]

=============================================================================

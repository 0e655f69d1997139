----------------------------- MODULE MCRequest -----------------------------
(***************************************************************************)
(* Instances of CARequest for TLC: subjects of up to two components, of    *)
(* which one may be malformed, and lists of up to two alternative names    *)
(* with one subject.                                                       *)
(***************************************************************************)
EXTENDS CARequest

Means(text, kind, value) == [text |-> text, kind |-> kind, value |-> value]
BlankPart(text)          == [text |-> text, kind |-> "blank"]
BadPart(text)            == [text |-> text, kind |-> "bad"]

PlainCN == Means(<<"CN", Equals, "a">>, "CN", <<"a">>)

GoodParts ==
    { PlainCN,
      Means(<<Blank, "cn", Blank, Equals, Blank, "a", Blank, "b", Blank>>, "CN", <<"a", Blank, "b">>),
      Means(<<"O", Equals, "b", Equals, "a">>, "O", <<"b", Equals, "a">>),
      Means(<<"o", Equals, "a">>, "O", <<"a">>),
      Means(<<"ST", Equals, "a">>, "ST", <<"a">>),
      BlankPart(<<Blank>>) }

BadParts ==
    { BadPart(<<"CN">>),
      BadPart(<<"CN", Equals, Blank>>),
      BadPart(<<"a", Equals, "b">>) }

PaddedDNS == Means(<<Blank, "DNS:", "b", Blank>>, "dns", <<"b">>)

SanParts ==
    { Means(<<"DNS:", "a">>, "dns", <<"a">>),
      PaddedDNS,
      Means(<<"DNS:", "accent">>, "dns", <<"accent">>),
      Means(<<"IP:", "1">>, "ip", <<"1">>),
      BlankPart(<<Blank>>),
      BadPart(<<"DNS:", Blank>>),
      BadPart(<<"IP:", "a">>),
      BadPart(<<"IP:", Blank, "1">>),
      BadPart(<<"a">>) }

NoText == << BlankPart(<< >>) >>

TypedSubjects ==
    (BoundedSeq(GoodParts, 2) \ {<< >>})
        \cup {NoText} \cup {<< p >> : p \in BadParts}
        \cup {<< PlainCN, p >> : p \in BadParts} \cup {<< p, PlainCN >> : p \in BadParts}

ManyTyped ==
    {[subject |-> s, san |-> NoText] : s \in TypedSubjects}
        \cup {[subject |-> << PlainCN >>, san |-> s] :
                    s \in {<< p >> : p \in SanParts} \cup {<< PaddedDNS, p >> : p \in SanParts}}

(* The order of encoded values: the shorter first, then by the words. *)
Rank(word) == CHOOSE i \in 1 .. 4 : << "a", "b", Equals, Blank >>[i] = word

ByEncoding(v, w) ==
    \/ Len(v) < Len(w)
    \/ /\ Len(v) = Len(w)
       /\ \E i \in DOMAIN v :
            /\ Rank(v[i]) < Rank(w[i])
            /\ \A j \in 1 .. i - 1 : v[j] = w[j]

DERSorted(values) == SortSeq(values, ByEncoding)

FewWords  == {"a", "b", "1", "accent"}
NonASCII  == {"accent"}
ValidIPs  == {<<"1">>}
AnyFault  == {"write", "remove", "rename", "crash"}

FewOutputs == {<<"p1", "p2">>, <<"p1", "p3">>, <<"p2", "p2">>}

=============================================================================

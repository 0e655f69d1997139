------------------------------ MODULE CAFiles ------------------------------
(***************************************************************************)
(* The data directory of the certificate authority: the paths store.go     *)
(* reads and writes, what a file of each format holds, and the new         *)
(* contents each command prepares in memory before it touches the disk.    *)
(*                                                                         *)
(* A file is its parsed contents tagged with its format (the PEM header,   *)
(* a hex counter, the JSON index).  A loader that expects one format fails *)
(* on every other, on a missing file and on a file cut short.              *)
(***************************************************************************)
EXTENDS Naturals, Sequences

CONSTANTS
    Keys,          \* private keys the CSPRNG may return; a key stands for its pair
    Subjects,      \* distinguished names of certificate requests
    Reasons,       \* revocation reasons in use
    MaxSerial,     \* bound: the highest serial number SignCSR hands out
    MaxCRLNumber   \* bound: the highest CRL number GenerateCRL hands out

(* ca.go:48, the reasons `ca revoke` accepts and their RFC 5280 codes. *)
ReasonCodes ==
    [ unspecified          |-> 0,
      keyCompromise        |-> 1,
      affiliationChanged   |-> 3,
      superseded           |-> 4,
      cessationOfOperation |-> 5 ]

ASSUME BoundsAssumption ==
    /\ MaxSerial \in Nat /\ MaxSerial >= 2
    /\ MaxCRLNumber \in Nat /\ MaxCRLNumber >= 1

ASSUME ReasonsAssumption == Reasons \subseteq DOMAIN ReasonCodes

----------------------------------------------------------------------------
(* Paths *)

CaKey         == <<"ca.key", 0>>
CaCrt         == <<"ca.crt", 0>>
SerialFile    == <<"serial", 0>>
CrlNumberFile == <<"crlnumber", 0>>
IndexFile     == <<"index.json", 0>>
CaCrl         == <<"ca.crl", 0>>

Serials     == 2 .. MaxSerial
CertFile(n) == <<"certs", n>>
CertFiles   == {CertFile(n) : n \in Serials}

Paths == {CaKey, CaCrt, SerialFile, CrlNumberFile, IndexFile, CaCrl} \cup CertFiles

----------------------------------------------------------------------------
(* Contents *)

Absent == [kind |-> "absent"]
Torn   == [kind |-> "torn"]     \* opened and written in part

NoReason    == ""
RootSubject == "root"           \* the --subject of `ca init`

PrivateKey(k)        == [kind |-> "key", key |-> k]
Certificate(n, s, k) == [kind |-> "certificate", serial |-> n, subject |-> s, signer |-> k]
Counter(v)           == [kind |-> "counter", value |-> v]
Index(es)            == [kind |-> "index", entries |-> es]
Crl(m, R, k)         == [kind |-> "crl", number |-> m, revoked |-> R, signer |-> k]

IndexEntry ==
    [ serial  : Serials,
      subject : Subjects,
      status  : {"active", "revoked"},
      reason  : Reasons \cup {NoReason} ]

CrlEntry == [serial : Serials, code : {ReasonCodes[r] : r \in DOMAIN ReasonCodes}]

KeyFiles            == {PrivateKey(k) : k \in Keys}
RootFiles           == {Certificate(1, RootSubject, k) : k \in Keys}
SerialFiles         == {Counter(v) : v \in 2 .. MaxSerial + 1}
CrlNumberFiles      == {Counter(v) : v \in 1 .. MaxCRLNumber + 1}
IndexFiles          == [kind : {"index"}, entries : Seq(IndexEntry)]
CertificateFiles(n) == [kind : {"certificate"}, serial : {n},
                        subject : Subjects, signer : Keys]
CrlFiles            == [kind : {"crl"}, number : 1 .. MaxCRLNumber,
                        revoked : SUBSET CrlEntry, signer : Keys]

(* The contents c have the format of the path p. *)
Fits(p, c) ==
    \/ p = CaKey /\ c \in KeyFiles
    \/ p = CaCrt /\ c \in RootFiles
    \/ p = SerialFile /\ c \in SerialFiles
    \/ p = CrlNumberFile /\ c \in CrlNumberFiles
    \/ p = IndexFile /\ c \in IndexFiles
    \/ p = CaCrl /\ c \in CrlFiles
    \/ \E n \in Serials : p = CertFile(n) /\ c \in CertificateFiles(n)

----------------------------------------------------------------------------
(* What SignCSR checks of a certificate request before it reads any state *)

CSR ==
    [ parses      : BOOLEAN,
      signatureOK : BOOLEAN,
      algorithm   : {"ECDSA P-256", "RSA 2048", "other"},
      subject     : Subjects ]

PassesGate(csr) ==
    /\ csr.parses
    /\ csr.signatureOK
    /\ csr.algorithm # "other"

----------------------------------------------------------------------------
(* The index *)

NewEntry(n, s) ==
    [serial |-> n, subject |-> s, status |-> "active", reason |-> NoReason]

MarkRevoked(e, r) == [e EXCEPT !.status = "revoked", !.reason = r]

(* The position of the first entry with the serial, as the scan finds it. *)
IsFirstMatch(es, n, i) ==
    /\ i \in DOMAIN es
    /\ es[i].serial = n
    /\ \A j \in DOMAIN es : es[j].serial = n => i <= j

ReasonCode(r) == IF r \in DOMAIN ReasonCodes THEN ReasonCodes[r] ELSE 0

(* Mutant: the scan keeps the entries that are not revoked. *)
RevokedEntriesInverted(es) ==
    {[serial |-> es[i].serial, code |-> ReasonCode(es[i].reason)] :
        i \in {j \in DOMAIN es : es[j].status # "revoked"}}

RevokedEntries(es) ==
    {[serial |-> es[i].serial, code |-> ReasonCode(es[i].reason)] :
        i \in {j \in DOMAIN es : es[j].status = "revoked"}}

----------------------------------------------------------------------------
(* The writes of each command, in its commit order (ADR-006) *)

Write(p, c) == [path |-> p, content |-> c]

(* Mutant: the certificate is renamed before the key it needs. *)
InitPlanCertFirst(k) ==
    << Write(CaCrt, Certificate(1, RootSubject, k)),
       Write(CaKey, PrivateKey(k)),
       Write(SerialFile, Counter(2)),
       Write(CrlNumberFile, Counter(1)),
       Write(IndexFile, Index(<< >>)) >>

(* Mutant: the index is renamed before the counter of the lists. *)
InitPlanIndexEarly(k) ==
    << Write(CaKey, PrivateKey(k)),
       Write(CaCrt, Certificate(1, RootSubject, k)),
       Write(SerialFile, Counter(2)),
       Write(IndexFile, Index(<< >>)),
       Write(CrlNumberFile, Counter(1)) >>

InitPlan(k) ==
    << Write(CaKey, PrivateKey(k)),
       Write(CaCrt, Certificate(1, RootSubject, k)),
       Write(SerialFile, Counter(2)),
       Write(CrlNumberFile, Counter(1)),
       Write(IndexFile, Index(<< >>)) >>

(* Mutant: the counter keeps its value. *)
SignPlanSameSerial(n, s, k, es) ==
    << Write(SerialFile, Counter(n)),
       Write(CertFile(n), Certificate(n, s, k)),
       Write(IndexFile, Index(Append(es, NewEntry(n, s)))) >>

(* Mutant: the counter is advanced last. *)
SignPlanSerialLast(n, s, k, es) ==
    << Write(CertFile(n), Certificate(n, s, k)),
       Write(IndexFile, Index(Append(es, NewEntry(n, s)))),
       Write(SerialFile, Counter(n + 1)) >>

(* Mutant: the index is renamed before the certificate it lists. *)
SignPlanIndexFirst(n, s, k, es) ==
    << Write(SerialFile, Counter(n + 1)),
       Write(IndexFile, Index(Append(es, NewEntry(n, s)))),
       Write(CertFile(n), Certificate(n, s, k)) >>

SignPlan(n, s, k, es) ==
    << Write(SerialFile, Counter(n + 1)),
       Write(CertFile(n), Certificate(n, s, k)),
       Write(IndexFile, Index(Append(es, NewEntry(n, s)))) >>

RevokePlan(es, i, r) ==
    << Write(IndexFile, Index([es EXCEPT ![i] = MarkRevoked(es[i], r)])) >>

(* Mutant: the counter keeps its value. *)
CRLPlanSameNumber(m, R, k) ==
    << Write(CaCrl, Crl(m, R, k)),
       Write(CrlNumberFile, Counter(m)) >>

(* Mutant: the list takes the number the counter moves to. *)
CRLPlanAhead(m, R, k) ==
    << Write(CaCrl, Crl(m + 1, R, k)),
       Write(CrlNumberFile, Counter(m + 1)) >>

CRLPlan(m, R, k) ==
    << Write(CaCrl, Crl(m, R, k)),
       Write(CrlNumberFile, Counter(m + 1)) >>

=============================================================================

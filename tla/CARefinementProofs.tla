------------------------- MODULE CARefinementProofs -------------------------
(***************************************************************************)
(* The files implement the registry: every step of CAStore, whatever       *)
(* fails, is a step of CARegistry or leaves the registry as it was.  The   *)
(* argument follows RenameEffect: only a rename changes the disk, and each *)
(* rename changes one file.                                                *)
(***************************************************************************)
EXTENDS CAHistoryProofs

----------------------------------------------------------------------------
(* An entry carries a reason exactly if it is revoked.  The registry has   *)
(* no status: what is revoked there is what has a reason.                  *)

HasReason(e) == e.status = "revoked" <=> e.reason # NoReason

ReasonsRecorded == \A i \in DOMAIN IndexEntries(disk) : HasReason(IndexEntries(disk)[i])

LEMMA NoReasonIsNone == NoReason \notin Reasons
BY ReasonsAssumption DEF NoReason, ReasonCodes

LEMMA RenameKeepsReasons ==
    ASSUME TypeInv, SafeInv, CommitRename, ReasonsRecorded
    PROVE  ReasonsRecorded'
<1>f. FilesOK
  BY DEF TypeInv, TypeOK
<1>t. Exists(IndexFile) => Entries \in Seq(IndexEntry) /\ IndexEntries(disk) = Entries
  BY <1>f, IndexEntriesType
<1>1. CASE \E p \in Paths : \E c : Put(p, c) /\ p # IndexFile
  BY <1>f, <1>1, OtherPutEntries DEF ReasonsRecorded
<1>2. CASE Put(IndexFile, Index(<< >>))
  BY <1>f, <1>2, IndexPutEntries DEF ReasonsRecorded
<1>3. ASSUME Exists(IndexFile), NEW n \in Serials, NEW s \in Subjects,
             Put(IndexFile, Index(Append(Entries, NewEntry(n, s))))
      PROVE  ReasonsRecorded'
  <2>1. IndexEntries(disk') = Append(Entries, NewEntry(n, s))
    BY <1>f, <1>3, IndexPutEntries
  <2>2. HasReason(NewEntry(n, s))
    BY DEF HasReason, NewEntry
  <2>3. ASSUME NEW i \in DOMAIN Append(Entries, NewEntry(n, s))
        PROVE  HasReason(Append(Entries, NewEntry(n, s))[i])
    <3>1. CASE i \in DOMAIN Entries
      BY <1>3, <1>t, <3>1 DEF ReasonsRecorded
    <3>2. CASE i \notin DOMAIN Entries
      BY <1>3, <1>t, <2>2, <2>3, <3>2
    <3>3. QED
      BY <3>1, <3>2
  <2>4. QED
    BY <2>1, <2>3 DEF ReasonsRecorded
<1>4. CASE RevokeEffect
  <2>1. PICK i \in DOMAIN Entries, r \in Reasons :
            /\ Exists(IndexFile)
            /\ Entries[i].status = "active"
            /\ Put(IndexFile, Index([Entries EXCEPT ![i] = MarkRevoked(Entries[i], r)]))
    BY <1>4 DEF RevokeEffect
  <2>2. IndexEntries(disk') = [Entries EXCEPT ![i] = MarkRevoked(Entries[i], r)]
    BY <1>f, <2>1, IndexPutEntries
  <2>3. HasReason(MarkRevoked(Entries[i], r))
    BY <1>t, <2>1, MarkRevokedType, NoReasonIsNone DEF HasReason
  <2>4. ASSUME NEW j \in DOMAIN Entries
        PROVE  HasReason([Entries EXCEPT ![i] = MarkRevoked(Entries[i], r)][j])
    <3>1. CASE j = i
      BY <1>t, <2>1, <2>3, <3>1
    <3>2. CASE j # i
      BY <1>t, <2>1, <3>2 DEF ReasonsRecorded
    <3>3. QED
      BY <3>1, <3>2
  <2>5. DOMAIN [Entries EXCEPT ![i] = MarkRevoked(Entries[i], r)] = DOMAIN Entries
    OBVIOUS
  <2>6. QED
    BY <2>2, <2>4, <2>5 DEF ReasonsRecorded
<1>5. CASE InitEffect
  BY <1>5, <1>1, <1>2, KnownPaths, FixedPathsDiffer DEF InitEffect
<1>6. CASE SignEffect
  <2>1. CASE \E p \in Paths : \E c : Put(p, c) /\ p # IndexFile
    BY <1>1, <2>1
  <2>2. CASE \E n \in Serials, s \in Subjects :
                Exists(IndexFile) /\ Put(IndexFile, Index(Append(Entries, NewEntry(n, s))))
    BY <1>3, <2>2
  <2>3. QED
    BY <1>6, <2>1, <2>2, KnownPaths, FixedPathsDiffer, CertFilesDiffer DEF SignEffect
<1>7. CASE CRLEffect
  BY <1>7, <1>1, KnownPaths, FixedPathsDiffer DEF CRLEffect
<1>8. QED
  BY <1>4, <1>5, <1>6, <1>7, RenameEffect

(* RevokeCert and SignCSR keep the two fields of an entry in step.         *)
THEOREM ReasonsAreRecorded == Spec => []ReasonsRecorded
<1>1. Init => ReasonsRecorded
  <2>1. Init => IndexEntries(disk) = << >>
    BY KnownPaths, ContentFields DEF Init, NoFiles, IndexEntries
  <2>2. QED
    BY <2>1 DEF ReasonsRecorded
<1>2. TypeInv /\ SafeInv /\ ReasonsRecorded /\ [Next]_vars => ReasonsRecorded'
  <2>1. ASSUME disk' = disk, ReasonsRecorded
        PROVE  ReasonsRecorded'
    BY <2>1 DEF ReasonsRecorded
  <2>2. QED
    BY <2>1, RenameKeepsReasons, OnlyRenamesChangeTheDisk
<1>3. QED
  BY <1>1, <1>2, SafeInvariance, PTL DEF Spec

----------------------------------------------------------------------------
(* The issued certificates of the registry *)

Increasing(es) == \A i, j \in DOMAIN es : i < j => es[i].serial < es[j].serial

LEMMA PositionFound ==
    ASSUME NEW es \in Seq(IndexEntry), Increasing(es), NEW i \in DOMAIN es
    PROVE  PositionOf(es, es[i].serial) = i
<1>1. \A j \in DOMAIN es : j \in Nat /\ es[j].serial \in Nat
  <2>1. ASSUME NEW j \in DOMAIN es
        PROVE  j \in Nat /\ es[j].serial \in Nat
    <3>1. es[j] \in IndexEntry
      OBVIOUS
    <3>2. QED
      BY <3>1, BoundsAssumption DEF IndexEntry, Serials
  <2>2. QED
    BY <2>1
<1>2. \A j \in DOMAIN es : es[j].serial = es[i].serial => j = i
  BY <1>1 DEF Increasing
<1>3. QED
  BY <1>2 DEF PositionOf

(* What the registry says of the certificate of an entry. *)
IssuedRecord(d, e) ==
    [ subject |-> d[CertFile(e.serial)].subject,
      signer  |-> d[CertFile(e.serial)].signer,
      reason  |-> e.reason ]

LEMMA IssuedIsFunction ==
    ASSUME NEW d
    PROVE  /\ IssuedOn(d) = [n \in DOMAIN IssuedOn(d) |-> IssuedOn(d)[n]]
           /\ \A i \in DOMAIN IndexEntries(d) : IndexEntries(d)[i].serial \in DOMAIN IssuedOn(d)
           /\ \A n \in DOMAIN IssuedOn(d) :
                \E i \in DOMAIN IndexEntries(d) : n = IndexEntries(d)[i].serial
BY DEF IssuedOn

LEMMA IssuedFromEntry ==
    ASSUME NEW d, IndexEntries(d) \in Seq(IndexEntry), Increasing(IndexEntries(d)),
           NEW i \in DOMAIN IndexEntries(d)
    PROVE  IssuedOn(d)[IndexEntries(d)[i].serial] = IssuedRecord(d, IndexEntries(d)[i])
<1>1. PositionOf(IndexEntries(d), IndexEntries(d)[i].serial) = i
  BY PositionFound
<1>2. QED
  BY <1>1 DEF IssuedOn, IssuedRecord

LEMMA EntriesIncrease ==
    ASSUME FilesOK, DiskInv
    PROVE  IndexEntries(disk) \in Seq(IndexEntry) /\ Increasing(IndexEntries(disk))
BY IndexEntriesType DEF DiskInv, SerialsAreFresh, Increasing

(* A change of other files leaves them as they are.                        *)
LEMMA IssuedFrame ==
    ASSUME FilesOK, DiskInv, IndexEntries(disk') = IndexEntries(disk),
           \A i \in DOMAIN IndexEntries(disk) :
                disk'[CertFile(IndexEntries(disk)[i].serial)] =
                    disk[CertFile(IndexEntries(disk)[i].serial)]
    PROVE  IssuedOn(disk') = IssuedOn(disk)
<1>1. IndexEntries(disk) \in Seq(IndexEntry) /\ Increasing(IndexEntries(disk))
  BY EntriesIncrease
<1>2. DOMAIN IssuedOn(disk') = DOMAIN IssuedOn(disk)
  BY DEF IssuedOn
<1>3. ASSUME NEW n \in DOMAIN IssuedOn(disk)
      PROVE  IssuedOn(disk')[n] = IssuedOn(disk)[n]
  <2>1. PICK i \in DOMAIN IndexEntries(disk) : n = IndexEntries(disk)[i].serial
    BY IssuedIsFunction
  <2>2. IssuedOn(disk)[n] = IssuedRecord(disk, IndexEntries(disk)[i])
    BY <1>1, <2>1, IssuedFromEntry
  <2>3. IssuedOn(disk')[IndexEntries(disk')[i].serial] = IssuedRecord(disk', IndexEntries(disk')[i])
    <3>1. /\ IndexEntries(disk') \in Seq(IndexEntry) /\ Increasing(IndexEntries(disk'))
          /\ i \in DOMAIN IndexEntries(disk')
      BY <1>1, <2>1
    <3>2. QED
      BY <3>1, IssuedFromEntry
  <2>4. IssuedRecord(disk', IndexEntries(disk)[i]) = IssuedRecord(disk, IndexEntries(disk)[i])
    BY DEF IssuedRecord
  <2>5. QED
    BY <2>1, <2>2, <2>3, <2>4
<1>4. /\ IssuedOn(disk) = [n \in DOMAIN IssuedOn(disk) |-> IssuedOn(disk)[n]]
      /\ IssuedOn(disk') = [n \in DOMAIN IssuedOn(disk) |-> IssuedOn(disk')[n]]
  <2>1. IssuedOn(disk') = [n \in DOMAIN IssuedOn(disk') |-> IssuedOn(disk')[n]]
    BY IssuedIsFunction
  <2>2. QED
    BY <1>2, <2>1, IssuedIsFunction
<1>5. QED
  BY <1>3, <1>4

(* The lists agree: what has a reason in the registry is what GenerateCRL  *)
(* finds revoked in the index.                                             *)
LEMMA RevokedAgree ==
    ASSUME FilesOK, DiskInv, ReasonsRecorded
    PROVE  Registry!Revoked = RevokedEntries(IndexEntries(disk))
<1> DEFINE es == IndexEntries(disk)
           code == [r \in Reasons |-> ReasonCode(r)]
           line(n, c) == [serial |-> n, code |-> c]
<1>1. es \in Seq(IndexEntry) /\ Increasing(es)
  BY EntriesIncrease
<1>2. Registry!Revoked =
        {line(n, code[IssuedOn(disk)[n].reason]) :
            n \in {m \in DOMAIN IssuedOn(disk) : IssuedOn(disk)[m].reason # NoReason}}
  BY DEF Registry!Revoked, Registry!Issued, Registry!Active, NoReason
<1>3. RevokedEntries(es) =
        {line(es[i].serial, ReasonCode(es[i].reason)) :
            i \in {j \in DOMAIN es : es[j].status = "revoked"}}
  BY DEF RevokedEntries
<1>4. ASSUME NEW i \in DOMAIN es
      PROVE  /\ es[i].serial \in DOMAIN IssuedOn(disk)
             /\ IssuedOn(disk)[es[i].serial].reason = es[i].reason
             /\ es[i].status = "revoked" =>
                    /\ es[i].reason # NoReason
                    /\ code[es[i].reason] = ReasonCode(es[i].reason)
             /\ es[i].reason # NoReason => es[i].status = "revoked"
  <2>1. IssuedOn(disk)[es[i].serial] = IssuedRecord(disk, es[i])
    BY <1>1, IssuedFromEntry
  <2>2. IssuedOn(disk)[es[i].serial].reason = es[i].reason
    BY <2>1 DEF IssuedRecord
  <2>3. es[i].serial \in DOMAIN IssuedOn(disk)
    BY IssuedIsFunction
  <2>4. es[i].status = "revoked" <=> es[i].reason # NoReason
    BY DEF ReasonsRecorded, HasReason
  <2>5. es[i].reason \in Reasons \cup {NoReason}
    <3>1. es[i] \in IndexEntry
      BY <1>1
    <3>2. QED
      BY <3>1 DEF IndexEntry
  <2>6. QED
    BY <2>2, <2>3, <2>4, <2>5
<1>5. \A n \in DOMAIN IssuedOn(disk) : \E i \in DOMAIN es : n = es[i].serial
  BY IssuedIsFunction
<1> HIDE DEF es, code, line
<1>6. QED
  BY <1>2, <1>3, <1>4, <1>5 DEF es

----------------------------------------------------------------------------
(* Each rename is a step of the registry, or none *)

LEMMA SameDisk ==
    ASSUME disk' = disk
    PROVE  UNCHANGED Registry!vars
BY DEF Registry!vars, TheAuthority, NextSerial, PublishedList, Committed, Exists

(* Before its last rename `ca init` has created nothing; then everything.  *)
LEMMA InitImplements ==
    ASSUME FilesOK, DiskInv, InitEffect
    PROVE  [Registry!Next]_(Registry!vars)
<1>1. /\ ~Exists(IndexFile) /\ ~Exists(CaCrl)
      /\ TheAuthority = {} /\ NextSerial = 2 /\ PublishedList = {}
  BY DEF InitEffect, DiskInv, InCommitOrder, TheAuthority, NextSerial, PublishedList, Committed
<1>2. IndexEntries(disk) = << >>
  BY <1>1, IndexEntriesType
<1>3. ASSUME IndexEntries(disk') = << >>
      PROVE  IssuedOn(disk') = IssuedOn(disk)
  BY <1>2, <1>3 DEF IssuedOn
<1>4. ASSUME NEW p \in {CaKey, CaCrt, SerialFile, CrlNumberFile}, NEW c, Put(p, c)
      PROVE  UNCHANGED Registry!vars
  <2>1. p \in Paths /\ p \notin {IndexFile, CaCrl}
    BY KnownPaths, FixedPathsDiffer
  <2>2. disk'[IndexFile] = Absent /\ disk'[CaCrl] = Absent
    BY <1>1, <1>4, <2>1, PutElsewhere, KnownPaths DEF Exists
  <2>3. IndexEntries(disk') = << >>
    BY <2>2, ContentFields DEF IndexEntries
  <2>4. IssuedOn(disk') = IssuedOn(disk)
    BY <1>3, <2>3
  <2>5. TheAuthority' = {} /\ NextSerial' = 2 /\ PublishedList' = {}
    BY <2>2 DEF TheAuthority, NextSerial, PublishedList, Committed, Exists
  <2>6. QED
    BY <1>1, <2>4, <2>5 DEF Registry!vars
<1>5. ASSUME NEW k \in Keys, disk[CaKey] = PrivateKey(k), disk[SerialFile] = Counter(2),
             Put(IndexFile, Index(<< >>))
      PROVE  Registry!Create(k)
  <2>1. disk'[IndexFile] = Index(<< >>) /\ disk'[IndexFile] # Absent
    BY <1>5, PutFrame, KnownPaths, ContentFields
  <2>2. /\ disk'[CaKey] = disk[CaKey] /\ disk'[SerialFile] = disk[SerialFile]
        /\ disk'[CaCrl] = disk[CaCrl]
    BY <1>5, PutElsewhere, KnownPaths, FixedPathsDiffer
  <2>3. IssuedOn(disk') = IssuedOn(disk)
    BY <1>3, <1>5, IndexPutEntries
  <2>4. TheAuthority' = {k} /\ NextSerial' = 2
    BY <1>5, <2>1, <2>2, ContentFields DEF TheAuthority, NextSerial, Committed, Exists
  <2>5. PublishedList' = {}
    BY <1>1, <2>2 DEF PublishedList, Exists
  <2>6. QED
    BY <1>1, <2>3, <2>4, <2>5 DEF Registry!Create
<1>6. QED
  BY <1>4, <1>5 DEF InitEffect, Registry!Next

(* A change of a file the registry does not see.                           *)
LEMMA UnseenPut ==
    ASSUME FilesOK, DiskInv, NEW p \in Paths, NEW c, Put(p, c),
           p \notin {CaKey, SerialFile, IndexFile, CaCrl},
           \A i \in DOMAIN IndexEntries(disk) : p # CertFile(IndexEntries(disk)[i].serial)
    PROVE  UNCHANGED Registry!vars
<1>1. /\ disk'[CaKey] = disk[CaKey] /\ disk'[SerialFile] = disk[SerialFile]
      /\ disk'[IndexFile] = disk[IndexFile] /\ disk'[CaCrl] = disk[CaCrl]
  BY PutElsewhere, KnownPaths
<1>2. ASSUME NEW i \in DOMAIN IndexEntries(disk)
      PROVE  disk'[CertFile(IndexEntries(disk)[i].serial)] =
                disk[CertFile(IndexEntries(disk)[i].serial)]
  BY EntryFields, KnownPaths, PutElsewhere
<1>3. IssuedOn(disk') = IssuedOn(disk)
  BY <1>2, OtherPutEntries, IssuedFrame
<1>4. TheAuthority' = TheAuthority /\ NextSerial' = NextSerial /\ PublishedList' = PublishedList
  BY <1>1 DEF TheAuthority, NextSerial, PublishedList, Committed, Exists
<1>5. QED
  BY <1>3, <1>4 DEF Registry!vars

(* The rename of serial reserves the number.                               *)
LEMMA SerialImplements ==
    ASSUME FilesOK, DiskInv, Exists(IndexFile), NEW n \in Serials,
           disk[SerialFile] = Counter(n), Put(SerialFile, Counter(n + 1))
    PROVE  Registry!Reserve
<1>1. disk'[SerialFile] = Counter(n + 1)
  BY PutFrame, KnownPaths
<1>2. /\ disk'[CaKey] = disk[CaKey] /\ disk'[IndexFile] = disk[IndexFile]
      /\ disk'[CaCrl] = disk[CaCrl]
  BY PutElsewhere, KnownPaths, FixedPathsDiffer
<1>3. ASSUME NEW i \in DOMAIN IndexEntries(disk)
      PROVE  disk'[CertFile(IndexEntries(disk)[i].serial)] =
                disk[CertFile(IndexEntries(disk)[i].serial)]
  BY EntryFields, KnownPaths, CertFilesDiffer, PutElsewhere
<1>4. IssuedOn(disk') = IssuedOn(disk)
  BY <1>3, OtherPutEntries, IssuedFrame, KnownPaths, FixedPathsDiffer
<1>5. TheAuthority # {} /\ TheAuthority' = TheAuthority /\ PublishedList' = PublishedList
  BY <1>2 DEF TheAuthority, PublishedList, Committed, Exists
<1>6. NextSerial = n /\ NextSerial' = n + 1
  BY <1>1, <1>2, ContentFields DEF NextSerial, Committed, Exists
<1>7. n <= MaxSerial
  BY BoundsAssumption DEF Serials
<1>8. QED
  BY <1>4, <1>5, <1>6, <1>7 DEF Registry!Reserve

(* The rename of index.json by SignCSR issues the certificate.             *)
LEMMA IndexImplements ==
    ASSUME FilesOK, DiskInv, DiskInv', FilesOK', Exists(IndexFile),
           NEW n \in Serials, NEW s \in Subjects, NEW k \in Keys,
           disk[CaKey] = PrivateKey(k),
           disk[SerialFile] = Counter(n + 1),
           disk[CertFile(n)] = Certificate(n, s, k),
           \A i \in DOMAIN Entries : Entries[i].serial < n,
           Put(IndexFile, Index(Append(Entries, NewEntry(n, s))))
    PROVE  Registry!Issue(n, s)
<1> DEFINE es == IndexEntries(disk)
           new == IndexEntries(disk')
           rec == [subject |-> s, signer |-> k, reason |-> NoReason]
<1>1. es = Entries /\ new = Append(es, NewEntry(n, s))
  BY IndexEntriesType, IndexPutEntries
<1>2. es \in Seq(IndexEntry) /\ Increasing(es) /\ new \in Seq(IndexEntry) /\ Increasing(new)
  <2>1. new \in Seq(IndexEntry)
    BY <1>1, NewEntryType, EntriesIncrease
  <2>2. Increasing(new)
    BY DEF DiskInv, SerialsAreFresh, Increasing
  <2>3. QED
    BY <2>1, <2>2, EntriesIncrease
<1>3. \A q \in Paths : q # IndexFile => disk'[q] = disk[q]
  BY PutElsewhere, KnownPaths
<1>4. /\ disk'[CaKey] = disk[CaKey] /\ disk'[SerialFile] = disk[SerialFile]
      /\ disk'[CaCrl] = disk[CaCrl] /\ disk'[IndexFile] # Absent
      /\ \A q \in CertFiles : disk'[q] = disk[q]
  <2>1. disk'[IndexFile] = Index(Append(Entries, NewEntry(n, s)))
    BY PutFrame, KnownPaths
  <2>2. disk'[IndexFile] # Absent
    BY <2>1, ContentFields
  <2>3. QED
    BY <1>3, <2>2, KnownPaths, FixedPathsDiffer, CertFilesDiffer
<1>5. /\ TheAuthority = {k} /\ TheAuthority' = {k}
      /\ NextSerial = n + 1 /\ NextSerial' = n + 1
      /\ PublishedList' = PublishedList
  BY <1>4, ContentFields DEF TheAuthority, NextSerial, PublishedList, Committed, Exists
<1>6. \A m \in DOMAIN IssuedOn(disk) : m < n
  BY <1>1, IssuedIsFunction
<1>7. /\ Len(new) = Len(es) + 1 /\ new[Len(es) + 1] = NewEntry(n, s)
      /\ DOMAIN new = DOMAIN es \cup {Len(es) + 1}
      /\ \A i \in DOMAIN es : new[i] = es[i]
  BY <1>1, <1>2, NewEntryType
<1>8. DOMAIN IssuedOn(disk') = DOMAIN IssuedOn(disk) \cup {n}
  <2>1. NewEntry(n, s).serial = n
    BY DEF NewEntry
  <2>2. DOMAIN IssuedOn(disk') = {new[i].serial : i \in DOMAIN new}
    BY DEF IssuedOn
  <2>3. DOMAIN IssuedOn(disk) = {es[i].serial : i \in DOMAIN es}
    BY DEF IssuedOn
  <2> HIDE DEF es, new
  <2>4. QED
    BY <1>7, <2>1, <2>2, <2>3
<1>9. IssuedOn(disk')[n] = rec
  <2>1. Len(es) + 1 \in DOMAIN new /\ new[Len(es) + 1] = NewEntry(n, s)
    BY <1>7
  <2>2. NewEntry(n, s).serial = n /\ NewEntry(n, s).reason = NoReason
    BY DEF NewEntry
  <2>3. IssuedOn(disk')[new[Len(es) + 1].serial] = IssuedRecord(disk', new[Len(es) + 1])
    BY <1>2, <2>1, IssuedFromEntry
  <2>4. disk'[CertFile(n)] = Certificate(n, s, k)
    BY <1>4, KnownPaths
  <2>5. IssuedRecord(disk', NewEntry(n, s)) = rec
    BY <2>2, <2>4, ContentFields DEF IssuedRecord
  <2>6. QED
    BY <2>1, <2>2, <2>3, <2>5
<1>10. ASSUME NEW m \in DOMAIN IssuedOn(disk)
       PROVE  IssuedOn(disk')[m] = IssuedOn(disk)[m]
  <2>1. PICK i \in DOMAIN es : m = es[i].serial
    BY IssuedIsFunction
  <2>2. i \in DOMAIN new /\ new[i] = es[i]
    BY <1>7
  <2>3. IssuedOn(disk')[new[i].serial] = IssuedRecord(disk', new[i])
    BY <1>2, <2>2, IssuedFromEntry
  <2>4. IssuedOn(disk)[es[i].serial] = IssuedRecord(disk, es[i])
    BY <1>2, IssuedFromEntry
  <2>5. disk'[CertFile(es[i].serial)] = disk[CertFile(es[i].serial)]
    BY <1>4, EntryFields
  <2>6. IssuedRecord(disk', es[i]) = IssuedRecord(disk, es[i])
    BY <2>5 DEF IssuedRecord
  <2>7. QED
    BY <2>1, <2>2, <2>3, <2>4, <2>6
<1>11. IssuedOn(disk') = [m \in DOMAIN IssuedOn(disk) \cup {n} |->
                            IF m = n THEN rec ELSE IssuedOn(disk)[m]]
  <2>1. n \notin DOMAIN IssuedOn(disk)
    BY <1>6 DEF Serials
  <2>2. IssuedOn(disk') = [m \in DOMAIN IssuedOn(disk) \cup {n} |-> IssuedOn(disk')[m]]
    BY <1>8, IssuedIsFunction
  <2> HIDE DEF rec
  <2>3. QED
    BY <1>9, <1>10, <2>1, <2>2
<1>12. n < NextSerial
  BY <1>5, BoundsAssumption DEF Serials
<1>13. QED
  BY <1>5, <1>6, <1>11, <1>12 DEF Registry!Issue, Registry!Issued, Registry!Active, NoReason

(* The rename of index.json by RevokeCert revokes the certificate.         *)
LEMMA RevokeImplements ==
    ASSUME FilesOK, DiskInv, DiskInv', FilesOK', ReasonsRecorded, Exists(IndexFile),
           NEW j \in DOMAIN Entries, NEW r \in Reasons,
           Entries[j].status = "active",
           Put(IndexFile, Index([Entries EXCEPT ![j] = MarkRevoked(Entries[j], r)]))
    PROVE  Registry!Revoke(Entries[j].serial, r)
<1> DEFINE es == IndexEntries(disk)
           new == IndexEntries(disk')
           n == es[j].serial
<1>1. es = Entries /\ new = [es EXCEPT ![j] = MarkRevoked(es[j], r)] /\ j \in DOMAIN es
  BY IndexEntriesType, IndexPutEntries
<1>2. es \in Seq(IndexEntry) /\ Increasing(es) /\ new \in Seq(IndexEntry) /\ Increasing(new)
  <2>1. es \in Seq(IndexEntry) /\ Increasing(es)
    BY EntriesIncrease
  <2>2. MarkRevoked(es[j], r) \in IndexEntry
    BY <1>1, <2>1, MarkRevokedType
  <2>3. new \in Seq(IndexEntry)
    BY <1>1, <2>1, <2>2
  <2>4. Increasing(new)
    BY DEF DiskInv, SerialsAreFresh, Increasing
  <2>5. QED
    BY <2>1, <2>3, <2>4
<1>3. /\ disk'[CaKey] = disk[CaKey] /\ disk'[SerialFile] = disk[SerialFile]
      /\ disk'[CaCrl] = disk[CaCrl] /\ disk'[IndexFile] # Absent
      /\ \A q \in CertFiles : disk'[q] = disk[q]
  <2>1. \A q \in Paths : q # IndexFile => disk'[q] = disk[q]
    BY PutElsewhere, KnownPaths
  <2>2. disk'[IndexFile] # Absent
    BY PutFrame, KnownPaths, ContentFields
  <2>3. QED
    BY <2>1, <2>2, KnownPaths, FixedPathsDiffer, CertFilesDiffer
<1>4. /\ TheAuthority' = TheAuthority /\ NextSerial' = NextSerial
      /\ PublishedList' = PublishedList
  BY <1>3 DEF TheAuthority, NextSerial, PublishedList, Committed, Exists
<1>5. \A i \in DOMAIN es :
        /\ i \in DOMAIN new
        /\ new[i] = IF i = j THEN MarkRevoked(es[j], r) ELSE es[i]
  BY <1>1
<1>6. MarkRevoked(es[j], r).serial = n /\ MarkRevoked(es[j], r).reason = r
  BY <1>1, <1>2, MarkRevokedType
<1>7. DOMAIN IssuedOn(disk') = DOMAIN IssuedOn(disk)
  <2>1. DOMAIN new = DOMAIN es /\ \A i \in DOMAIN es : new[i].serial = es[i].serial
    BY <1>1, <1>5, <1>6
  <2>2. DOMAIN IssuedOn(disk') = {new[i].serial : i \in DOMAIN new}
    BY DEF IssuedOn
  <2>3. DOMAIN IssuedOn(disk) = {es[i].serial : i \in DOMAIN es}
    BY DEF IssuedOn
  <2> HIDE DEF es, new
  <2>4. QED
    BY <2>1, <2>2, <2>3
<1>8. ASSUME NEW i \in DOMAIN es
      PROVE  /\ IssuedOn(disk)[es[i].serial] = IssuedRecord(disk, es[i])
             /\ IssuedOn(disk')[es[i].serial] = IssuedRecord(disk, new[i])
  <2>1. IssuedOn(disk)[es[i].serial] = IssuedRecord(disk, es[i])
    BY <1>2, IssuedFromEntry
  <2>2. i \in DOMAIN new /\ new[i].serial = es[i].serial
    BY <1>5, <1>6
  <2>3. IssuedOn(disk')[new[i].serial] = IssuedRecord(disk', new[i])
    BY <1>2, <2>2, IssuedFromEntry
  <2>4. IssuedRecord(disk', new[i]) = IssuedRecord(disk, new[i])
    BY <1>3, <2>2, EntryFields DEF IssuedRecord
  <2>5. QED
    BY <2>1, <2>2, <2>3, <2>4
<1>9. n \in DOMAIN IssuedOn(disk) /\ IssuedOn(disk)[n] = IssuedRecord(disk, es[j])
  BY <1>1, <1>8, IssuedIsFunction
<1>10. IssuedOn(disk)[n].reason = NoReason
  <2>1. HasReason(es[j])
    BY <1>1 DEF ReasonsRecorded
  <2>2. QED
    BY <1>1, <1>9, <2>1 DEF HasReason, IssuedRecord
<1>11. IssuedOn(disk')[n] = [IssuedOn(disk)[n] EXCEPT !.reason = r]
  <2>1. new[j] = MarkRevoked(es[j], r)
    BY <1>1, <1>5
  <2>2. IssuedOn(disk')[n] = IssuedRecord(disk, MarkRevoked(es[j], r))
    BY <1>1, <1>8, <2>1
  <2>3. IssuedRecord(disk, MarkRevoked(es[j], r)) = [IssuedRecord(disk, es[j]) EXCEPT !.reason = r]
    BY <1>6 DEF IssuedRecord
  <2>4. QED
    BY <1>9, <2>2, <2>3
<1>12. ASSUME NEW m \in DOMAIN IssuedOn(disk), m # n
       PROVE  IssuedOn(disk')[m] = IssuedOn(disk)[m]
  <2>1. PICK i \in DOMAIN es : m = es[i].serial
    BY IssuedIsFunction
  <2>2. i # j
    BY <1>12, <2>1
  <2>3. QED
    BY <1>5, <1>8, <2>1, <2>2
<1>13. IssuedOn(disk') = [IssuedOn(disk) EXCEPT ![n] = [IssuedOn(disk)[n] EXCEPT !.reason = r]]
  <2>1. /\ IssuedOn(disk) = [m \in DOMAIN IssuedOn(disk) |-> IssuedOn(disk)[m]]
        /\ IssuedOn(disk') = [m \in DOMAIN IssuedOn(disk) |-> IssuedOn(disk')[m]]
    <3>1. IssuedOn(disk') = [m \in DOMAIN IssuedOn(disk') |-> IssuedOn(disk')[m]]
      BY IssuedIsFunction
    <3>2. QED
      BY <1>7, <3>1, IssuedIsFunction
  <2> HIDE DEF n
  <2>2. QED
    BY <1>9, <1>11, <1>12, <2>1
<1>14. Registry!Revoke(n, r)
  BY <1>4, <1>9, <1>10, <1>13 DEF Registry!Revoke, Registry!Issued, Registry!Active, NoReason
<1>15. QED
  BY <1>1, <1>14

(* The rename of ca.crl publishes what is revoked at that moment.          *)
LEMMA CrlImplements ==
    ASSUME FilesOK, DiskInv, ReasonsRecorded, Exists(IndexFile),
           NEW m \in 1 .. MaxCRLNumber, NEW k \in Keys,
           disk[CaKey] = PrivateKey(k),
           disk[CrlNumberFile] = Counter(m),
           Put(CaCrl, Crl(m, RevokedEntries(Entries), k))
    PROVE  Registry!Publish(m)
<1> DEFINE list == [number |-> m, revoked |-> RevokedEntries(Entries), signer |-> k]
<1>1. disk'[CaCrl] = Crl(m, RevokedEntries(Entries), k)
  BY PutFrame, KnownPaths
<1>2. /\ disk'[CaKey] = disk[CaKey] /\ disk'[SerialFile] = disk[SerialFile]
      /\ disk'[IndexFile] = disk[IndexFile]
  BY PutElsewhere, KnownPaths, FixedPathsDiffer
<1>3. ASSUME NEW i \in DOMAIN IndexEntries(disk)
      PROVE  disk'[CertFile(IndexEntries(disk)[i].serial)] =
                disk[CertFile(IndexEntries(disk)[i].serial)]
  BY EntryFields, KnownPaths, CertFilesDiffer, PutElsewhere
<1>4. IssuedOn(disk') = IssuedOn(disk)
  BY <1>3, OtherPutEntries, IssuedFrame, KnownPaths, FixedPathsDiffer
<1>5. TheAuthority = {k} /\ TheAuthority' = TheAuthority /\ NextSerial' = NextSerial
  BY <1>2, ContentFields DEF TheAuthority, NextSerial, Committed, Exists
<1>6. PublishedList' = {list}
  BY <1>1, ContentFields DEF PublishedList, Exists
<1>7. \A c \in PublishedList : c.number <= m
  BY ContentFields DEF PublishedList, DiskInv, CRLMatchesIndex
<1>8. Registry!Revoked = RevokedEntries(Entries)
  BY RevokedAgree, IndexEntriesType
<1>9. QED
  BY <1>4, <1>5, <1>6, <1>7, <1>8 DEF Registry!Publish

LEMMA RenameImplements ==
    ASSUME TypeInv, TypeInv', SafeInv, SafeInv', ReasonsRecorded, CommitRename
    PROVE  [Registry!Next]_(Registry!vars)
<1>f. FilesOK /\ FilesOK' /\ DiskInv /\ DiskInv'
  BY DEF TypeInv, TypeOK, SafeInv
<1>1. CASE InitEffect
  BY <1>f, <1>1, InitImplements
<1>2. ASSUME Exists(IndexFile), NEW n \in Serials,
             disk[SerialFile] = Counter(n), Put(SerialFile, Counter(n + 1))
      PROVE  Registry!Next
  BY <1>f, <1>2, SerialImplements DEF Registry!Next
<1>3. ASSUME NEW n \in Serials, NEW c, ~Exists(CertFile(n)), Put(CertFile(n), c)
      PROVE  UNCHANGED Registry!vars
  <2>1. /\ CertFile(n) \in Paths
        /\ CertFile(n) \notin {CaKey, SerialFile, IndexFile, CaCrl}
    BY KnownPaths, CertFilesDiffer
  <2>2. ASSUME NEW i \in DOMAIN IndexEntries(disk)
        PROVE  CertFile(n) # CertFile(IndexEntries(disk)[i].serial)
    BY <1>3, <1>f, ContentFields DEF DiskInv, IndexedIsOnFile, Exists
  <2>3. QED
    BY <1>f, <1>3, <2>1, <2>2, UnseenPut
<1>4. ASSUME Exists(IndexFile), NEW n \in Serials, NEW s \in Subjects, NEW k \in Keys,
             disk[CaKey] = PrivateKey(k),
             disk[SerialFile] = Counter(n + 1),
             disk[CertFile(n)] = Certificate(n, s, k),
             \A i \in DOMAIN Entries : Entries[i].serial < n,
             Put(IndexFile, Index(Append(Entries, NewEntry(n, s))))
      PROVE  Registry!Next
  BY <1>f, <1>4, IndexImplements DEF Registry!Next, Serials
<1>5. CASE SignEffect
  BY <1>2, <1>3, <1>4, <1>5 DEF SignEffect
<1>6. CASE RevokeEffect
  <2>1. PICK i \in DOMAIN Entries, r \in Reasons :
            /\ Exists(IndexFile)
            /\ Entries[i].status = "active"
            /\ Put(IndexFile, Index([Entries EXCEPT ![i] = MarkRevoked(Entries[i], r)]))
    BY <1>6 DEF RevokeEffect
  <2>2. Registry!Revoke(Entries[i].serial, r)
    BY <1>f, <2>1, RevokeImplements
  <2>3. Entries[i].serial \in Registry!Issued
    BY <2>2 DEF Registry!Revoke
  <2>4. QED
    BY <2>2, <2>3 DEF Registry!Next
<1>7. ASSUME Exists(IndexFile), NEW m \in 1 .. MaxCRLNumber, NEW k \in Keys,
             disk[CaKey] = PrivateKey(k),
             disk[CrlNumberFile] = Counter(m),
             Put(CaCrl, Crl(m, RevokedEntries(Entries), k))
      PROVE  Registry!Next
  BY <1>f, <1>7, CrlImplements DEF Registry!Next
<1>8. ASSUME NEW c, Put(CrlNumberFile, c)
      PROVE  UNCHANGED Registry!vars
  <2>1. /\ CrlNumberFile \in Paths
        /\ CrlNumberFile \notin {CaKey, SerialFile, IndexFile, CaCrl}
    BY KnownPaths, FixedPathsDiffer
  <2>2. ASSUME NEW i \in DOMAIN IndexEntries(disk)
        PROVE  CrlNumberFile # CertFile(IndexEntries(disk)[i].serial)
    BY <1>f, EntryFields, CertFilesDiffer
  <2>3. QED
    BY <1>f, <1>8, <2>1, <2>2, UnseenPut
<1>9. CASE CRLEffect
  BY <1>7, <1>8, <1>9 DEF CRLEffect
<1>10. QED
  BY <1>1, <1>5, <1>6, <1>9, RenameEffect

(* The commands keep every promise of the registry at every moment,        *)
(* whatever fails or dies: nothing shows between two renames that the      *)
(* registry could not show (InitCA, SignCSR, RevokeCert, GenerateCRL).     *)
THEOREM FilesImplementRegistry == Spec => ImplementsRegistry
<1>1. Init => Registry!Init
  <2>1. SUFFICES ASSUME Init PROVE Registry!Init
    OBVIOUS
  <2>2. disk[IndexFile] = Absent /\ disk[CaCrl] = Absent
    BY <2>1, KnownPaths DEF Init, NoFiles
  <2>3. IndexEntries(disk) = << >>
    BY <2>2, ContentFields DEF IndexEntries
  <2>4. IssuedOn(disk) = [n \in {} |-> Registry!Active]
    BY <2>3 DEF IssuedOn
  <2>5. TheAuthority = {} /\ NextSerial = 2 /\ PublishedList = {}
    BY <2>2 DEF TheAuthority, NextSerial, PublishedList, Committed, Exists
  <2>6. QED
    BY <2>4, <2>5 DEF Registry!Init
<1>2. /\ TypeInv /\ SafeInv /\ ReasonsRecorded
      /\ TypeInv' /\ SafeInv'
      /\ [Next]_vars
      => [Registry!Next]_(Registry!vars)
  BY RenameImplements, OnlyRenamesChangeTheDisk, SameDisk
<1>3. QED
  BY <1>1, <1>2, SafeInvariance, ReasonsAreRecorded, PTL
  DEF Spec, ImplementsRegistry, Registry!Spec

=============================================================================

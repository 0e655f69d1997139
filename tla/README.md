# A model of the certificate authority and its data directory

The program is a command line certificate authority in Go without a database:
its whole state is a directory of small files. Each command is one run of the
program. The modules here look at it from four sides:

- *files*: what the four commands that change the directory do to it, step by
  step, when writes, removals and renames fail and when the process is killed;
- *commands*: what a script sees: arguments, exit codes, the clock, and whether
  `list`, `verify`, the published list and the index say the same;
- *processes*: a scheduled `ca crl` and a `ca verify` beside the operator;
- *requests*: `ca request` and what becomes of the names a user types.

TLC checks the properties below on small instances. TLAPS proves them for every
instance, all but the one of liveness (section 4).

## 1. The system

| Part | Source | State | Operations |
|---|---|---|---|
| Data directory | `store.go` | `ca.key`, `ca.crt`, `serial`, `crlnumber`, `index.json`, `ca.crl`, `certs/<serial>.pem`, and a `.tmp` sibling of each while it is written | one loader per format, `writeFileAtomic`, `cleanupTempFiles`, `InitDataDir`, `IsInitialized` |
| `ca init` | `ca.go` `InitCA` | none of its own | refuses if `ca.key` and `ca.crt` exist; key, root certificate, mkdir, five files |
| `ca sign` | `ca.go` `SignCSR` | none | gate on the request, four loads, then `serial`, the certificate, `index.json` |
| `ca revoke` | `ca.go` `RevokeCert` | none | one entry of `index.json` from active to revoked |
| `ca crl` | `crl.go` `GenerateCRL` | none | the revoked entries of the index as a signed list: `ca.crl`, `crlnumber` |
| `ca list` | `ca.go` `ListCerts` | none, reads the clock | the index with expiry computed |
| `ca verify` | `verify.go` | none, reads the clock | signature, validity period, list |
| `ca request` | `request.go` | two files outside the directory | key, then request |
| Names | `dn.go` | none | `ParseDN`, `FormatDN`, `ParseSANs` |
| Command line | `main.go` | none | flags, exit codes 0, 1 and 2 |

The parts interact through files only. Nothing is kept between two runs of the
program except what is under the directory. There is no lock: that one command
runs at a time is left to the administrator (`SPEC.md`, assumption A-2).

What is hard here is not a command that succeeds but one that stops. A command
prepares all its new contents in memory, stages each in the `.tmp` sibling of
its path, and then renames the siblings one by one (`ADR-006`). There is no log
and no roll back, so the order of the renames decides what an interrupted
command leaves, and the next command starts from that. The properties that make
each part correct:

- *data directory*: no file under a final path is ever truncated or foreign,
  whatever is left in a `.tmp` file;
- *init*: once there is an identity nothing replaces it, and everything signed
  is signed with it;
- *sign*: no serial names two certificates, through any number of failures and
  retries; what the index lists is on file;
- *revoke*: a revocation is final and the index forgets nothing;
- *crl*: a list holds what the index revokes and never less than the one before;
- *list and verify*: they answer from different files, one from the index and
  one from the published list, and still agree as far as the list is current;
- *request*: no request is handed out whose key was not saved; the names a user
  types are refused if malformed and otherwise reach the index unchanged;
- *every command*: it ends, and, as far as the design allows, it takes effect
  completely or not at all.

## 2. The modules

| Module | What it is |
|---|---|
| `CAFiles` | paths, contents, the gate on a request, the index operations, and the *plan* of each command: its writes in commit order |
| `CAStore` | the commands as a state machine over `CAFiles`, the faults, and the properties |
| `CARegistry` | what the authority promises, with no files: atomic `Create`, `Reserve`, `Issue`, `Revoke`, `Publish` |
| `CASerials` | serials and counters as text: base, padding, case; there and back |
| `CACommands` | every command on the directory as one step, with its arguments, its exit code and the clock; what `list` and `verify` answer |
| `CAConcurrent` | two instances of `CAStore` over the same files, the operator's and the crl job's, and `ca verify` step by step |
| `CANames` | `ParseDN`, `FormatDN`, `ParseSANs` as functions on sequences of tokens |
| `CARequest` | `ca request` with its two files, and the names on their way from the command line through a request and a certificate to the index |
| `MCStore`, `MCCommands`, `MCConcurrent`, `MCRequest` | the sets TLC substitutes for the constants |
| `CAStoreProofs` | type correctness and the safety invariants, proved |
| `CAHistoryProofs` | the action properties, proved; what a process keeps to beside another one |
| `CARefinementProofs` | the files implement the registry, proved |
| `CAWriteFaultProofs` | what holds if only writes fail, proved |
| `CACommandsProofs` | serials as text, and what the commands answer, proved |
| `CAConcurrentProofs` | the operator, the crl job and the verifier together, proved |
| `CANamesProofs` | what the parsers and the printer of names compute, proved |
| `CARequestProofs` | the files of `ca request` and the names in them, proved |

### State of `CAStore`

| Variable | In the program |
|---|---|
| `disk` | the file under each final path, `Absent` if there is none |
| `tmp` | the file under `<path>.tmp`; `Torn` if a write was cut short |
| `certsDir` | `certs/` exists |
| `op`, `pc` | the running command and how far it is |
| `mem` | the local variables it still needs: the CA key, the serial it read, the subject; the revoked set |
| `plan`, `pos` | the contents it has prepared, and the write it stages or commits next |
| `outcome` | how the last command ended: `ok` (exit 0), `error` (exit 1), `crash` |
| `before` | history: the disk when the command began |

A file is its parsed contents tagged with its format. A loader that wants one
format fails on another, on an absent file and on a torn one: `Loads(p, kind)`.
A key stands for its pair, a certificate records the key that signed it, and a
list the number, the revoked serials with their reason codes and its signer.

### Actions of `CAStore`

A command that fails before its first write changes nothing, so its whole
validation is one step: `BeginX` or `RejectX`. Files that the code reads later
are read by a later step (`SignLoadIndex`, `CRLLoadCounter`), since a failure
there ends a command that has begun; with the counter in hand `CRLLoadCounter`
may still end it, when the library refuses the list. `MakeDataDir` is `InitDataDir`. The
stage and commit loops, which the source spells out in each command, are the
same in all of them and are modelled once, over `plan`: `StageWrite`,
`StageWriteFails`, `CommitRename`, `CommitRenameFails`. `RevokeCert` reaches
the same steps, for a plan of one write, through `SaveIndex` and
`writeFileAtomic`, whose error paths remove the one `.tmp` file.

The faults are a constant, so each run says under what it holds:

- `"write"`: `os.WriteFile` or `os.MkdirAll` fails. The `.tmp` file may be as
  it was or torn; the clean-up follows;
- `"remove"`: any of the removals of a clean-up fails, which the code ignores;
- `"rename"`: `os.Rename` fails; the clean-up follows and earlier renames stay;
- `"crash"`: the process dies between any two steps, or within a write. No
  clean-up. A kill within a clean-up leaves the files failed removals leave, so
  it has no action of its own and is covered where `"remove"` is allowed.

### `CACommands`

Nothing fails here and nothing runs in between, so a command is one step: the
`RunX` actions are the run functions of `main.go` with what they call. The
first disjunct is a usage error (exit 2), the second any later failure (exit 1),
the third the success. `root`, `serial`, `crlnumber`, `index`, `certs` and `crl`
are the files; `serial`, `crlnumber` and the serials of the index are texts,
those of certificates and lists numbers, as in the program, with
`FormatSerial` and `ParseSerial` between them. `asked` in a certificate or a
list is history: the days or hours on the command line.

`SetClock` lets the clock go on or be set back. It counts in ticks of half a
second, because certificates, lists and the index drop the fraction of a second
and `time.Now` has one. `Word` is the wrap-around of a `time.Duration`.

### `CAConcurrent`

`Issuer` runs init, sign and revoke, `CrlJob` runs crl: after init no file is
written by both. All the steps of the two interleave, either may fail or be
killed, and its clean-up or next command then runs beside the other one.
`ca verify` looks for `ca.crl` in one step and opens it in the next. This is as
far as concurrency goes without losing data: two signs at a time may take the
same serial, and the program does nothing about it.

`BeginSign` and `BeginCRL` each read several files in one step. In `CrlJob` the
root and its key are final once both are there, so only the read of the index
matters, and the counter is read in a step of its own; in `Issuer` nobody else
writes what it reads.

### `CARequest` and `CANames`

A text is a sequence of tokens: commas, equals signs, blanks, prefixes, types of
attributes and words. The user types *parts*, each with its text and with what
it means, and `Line` puts commas between them. The program sees only the line;
the properties compare what it made of it with what the parts mean: `Meant` is
every value of every attribute; `WellFormed` says that no part is malformed and
that the subject has one that is not blank; `OnlySeparators`, that the subject is
commas and blanks only. `NameAsTyped` leaves several common names out and
`RefusedExactlyIfMalformed` subjects of separators only, where the code departs
from its documents (section 5). What a text may mean is a grammar, written without the parser:
`AttributeAt` says that a text is a type, an equals sign and a value with blanks
around them, `PrefixedAt` that it is a prefix with a value right after it. A
part is `"bad"` if it is of neither form. `TypedAssumption` holds the instance
to that, in the run and in the proofs.

`Pick`, `Split` and `JoinWithCommas` are recursive functions over positions,
that is the loops of the source: `append` under a condition, `strings.Split` and
`strings.Join`. `Encoded` is what DER does to a name: the values of one
attribute come back in the order `Sorted`, which is a constant; the run gives
it the order of encodings.

`WriteKey`, `RenameKey` and `SaveKeyFails` are `SavePrivateKey` through
`writeFileAtomic`; `WriteRequest` and `WriteRequestFails` the write in place
that follows. The removal in an error path of `writeFileAtomic` may fail as well
(`"remove"`), and leaves what a kill leaves (`AfterPartialSave`). `CannotEncode`
is the refusal of the library to encode a name, before anything is written. `Sign` is `ca sign` as far as names go.

## 3. What is checked

| Run | Faults | Bounds | Shows |
|---|---|---|---|
| `StoreWriteFaults` | write | 1 key, 2 subjects, 2 reasons, serials 2 and 3, list numbers 1 and 2 | `AllOrNothing`: a command ends with all its writes or none; `NothingLeftStaged`; `FilesMatchIndex`: certificates, index and counter agree (CON-DI-007, CON-DI-008); `CRLNumberIncreases`; `Terminates`: every command ends, whichever of its writes fail |
| `StoreAnyFault` | all | 2 keys, 2 subjects, 2 reasons, serials 2 and 3, list numbers 1 and 2 | `TypeOK`: no torn or foreign file in place; `ChainOfTrust`; `CRLMatchesIndex`; `IndexedIsOnFile`; `SerialsAreFresh`; `IdentityIsFixed`; `CRLNeverForgets`; `HistoryIsKept`; `IssuedIsFinal`; `ImplementsRegistry` |

The bounds are constants in guards: `MaxSerial` stops `BeginSign`,
`MaxCRLNumber` stops `BeginCRL`. Two end-entity serials are needed for a retry
to collide with what an earlier attempt left, for a gap to lie between two
entries, and for one certificate to be revoked while the other is issued; two
list numbers for a list to replace another. Two subjects tell a retried
certificate from the first, two reasons a changed revocation from a repeated
one, two keys an authority from the one that replaced it. Keys and subjects are
symmetric in `StoreAnyFault`, all of whose properties are of safety.

The other runs that pass:

| Run | Bounds | Shows |
|---|---|---|
| `Commands` | serials 2 and 3, list numbers 1 and 2, 2 keys, 4 readings of the clock, 4 validities, 3 list periods | `ListAndVerifyAgree`: what is listed as active verifies under any list, and the converse holds under a current one, at both ends of the period; `RevokedIsListed`; `RevokedForEver`; `PeriodAsAsked`; `SerialTextIsItsName`; `TypeOK` |
| `Concurrent` | write, rename and crash; serials 2 and 3, list numbers 1 and 2, 1 key | `SafeTogether`: the safety invariants of `CAStore` with both writers at work; `NothingIsUndone`: so does its history; `StagedStays`: no clean-up takes what the other has staged; `CounterWaits`; `VerdictIsHonest` |
| `Request` | all; 2 keys, 3 paths, 3 pairs of outputs, subjects of one or two of 6 components, malformed ones of 3 kinds alone and beside a common name, one or two alternative names of 9 kinds (the first of two fixed) | `NameAsTyped`, `ListedNameReadsBack`, `RefusedExactlyIfMalformed`, `CertifiedKeyWasSaved`, `PairMatches`, `TypeOK`: no key found cut short |

*Time in `Commands`* is scaled down, keeping what matters of the proportions: a
second is two ticks, an hour one second, a day three hours, and a duration runs
from -16 to 15 (`Limit`). Two days (12 ticks) still fit into a duration, three (18) wrap to a
negative one and six (36) to a short positive one. The readings are the first
two ticks and the two around the end of two days. Eight hours is the first
number of hours to wrap to a negative duration: the library refuses that list.
Numbers are written in base three, in which 2 is the digit that has two cases
and 3 is the first number of two digits, as 16 is in base sixteen; a serial
typed may have one digit more than any printed.

The view of `Commands` leaves out the exit code, on which nothing depends, and
keys are symmetric. The view of `Concurrent` leaves out how a command ended and
what it had found; no property of that run mentions them. None of the
properties under a view reads what the view hides.

*What the properties of `Commands` do not say.* `ca verify` reads neither the
`nextUpdate` of the list nor the period of the root, so an old list and an
expired root count. A list that is behind makes `ca verify` accept what `ca list`
shows as revoked, which is why one half of `ListAndVerifyAgree` asks for a
current list; both halves ask for a clock not set back before the issue, since
`ca list` ignores `notBefore`. `PeriodAsAsked` is about days that fit in a
duration; section 5 says what becomes of others.

`CARegistry` is implemented under every fault. `Create`, `Issue` and `Revoke`
happen at the rename of `index.json`, `Reserve` at the rename of `serial`,
`Publish` at the rename of `ca.crl`; every other step is invisible. Before the
index exists an incomplete init shows as no authority at all.

*Fairness.* Only `Terminates` needs any: weak fairness of `Progress`, the next
step of the running command. A command is a loop-free program over at most five
files that waits for nobody, so the operating system alone has to run it.
Nothing is assumed of the operator. `Terminates` is checked where only writes
fail; a rename that fails ends its command at once (`CommitRenameFails`).

*Deadlock* is checked in every run: the operator can always try a command.

Seven runs find what the documents promise and the code does not do. They are
listed in `PROJECT.json` as findings, with the lines they quote.

| Run | Promise | What happens |
|---|---|---|
| `StoreRenameFails` | CON-DI-004: a failing command modifies nothing | a rename error after the first rename: exit 1, state changed |
| `StoreHalfInit` | ADR-006: a partial init is not initialized | killed after `ca.crt` is in place: initialized, without counters and index: init is refused, and sign, revoke, crl and list fail to load a file |
| `StoreReinit` | CON-BD-003: init never overwrites `ca.key` or `ca.crt` | killed after `ca.key` is in place: the next init replaces it |
| `StoreCRLReuse` | CON-INV-007: list numbers strictly increase | the rename of `crlnumber` fails: the next list has the same number |
| `StoreOrphan` | CON-DI-007: every file in `certs/` is indexed | the rename of `index.json` fails: a valid certificate that cannot be listed or revoked |
| `CommandsOverflow` | CON-BD-011: `nextUpdate` is `thisUpdate` plus the hours asked for | hours that overflow a duration back to a positive one (17 here, 5124096 in the program): the list is published with another `nextUpdate` |
| `RequestOnePath` | CON-BD-020: the file at `--out-key` contains the private key | one path for both outputs: the request replaces the key, exit 0 |

ADR-006 accepts most of these states for a process crash; the first, fourth and
fifth need no crash but only a rename error.

## 4. What is proved

Every theorem holds for all values of the constants. `Keys`, `Subjects`,
`Faults`, `Times`, `Days` and what a user may type are any sets within these
assumptions:

| Assumption | Why the code justifies it |
|---|---|
| `BoundsAssumption` | one end-entity serial and one list number at least |
| `ReasonsAssumption` | reasons are those `ReasonCodes` of `ca.go` knows |
| `FaultsAssumption` | the faults are those of section 2 |
| `SerialsAssumption` | the base of the digits is two or more, and some digits may be letters |
| `TimeAssumption` | a tick divides a second, a second an hour; times and days are integers; a duration has a limit |
| `OutputsAssumption`, `MaxKeysAssumption` | outputs are paths of the user; the bound is a number |
| `AddressesAssumption` | `net.ParseIP` accepts no empty text |
| `TypedAssumption` | none of the code: it says what the parts of a line mean |
| `SortedAssumption` | a DER SET OF holds the same number of values, each of them one the parser kept |

| Theorem | States | Where |
|---|---|---|
| `TypeCorrect` | `TypeOK` | `CAStoreProofs` |
| `SafeInvariance` | the inductive invariant | |
| `IndexedCertificates` | `IndexedIsOnFile` | |
| `FreshSerials` | `SerialsAreFresh` | |
| `SignedByTheKey` | `ChainOfTrust` | |
| `ListsAgreeWithIndex` | `CRLMatchesIndex` | |
| `IdentityFixed` | `IdentityIsFixed` | `CAHistoryProofs` |
| `CertificatesFinal` | `IssuedIsFinal` | |
| `HistoryKept` | `HistoryIsKept` | |
| `ListsNeverForget` | `CRLNeverForgets` | |
| `FilesImplementRegistry` | `ImplementsRegistry` | `CARefinementProofs` |
| `ReasonsAreRecorded` | an entry has a reason exactly if it is revoked | |
| `CommandsAreAtomic` | `AllOrNothing`, if only writes fail | `CAWriteFaultProofs` |
| `NothingStaysStaged` | `NothingLeftStaged`, likewise | |
| `FilesAgree` | `FilesMatchIndex`, likewise | |
| `ListNumbersIncrease` | `CRLNumberIncreases`, likewise | |
| `FailuresChangeNothing` | `FailureChangesNothing`, likewise | |
| `DirectoryIsComplete` | `InitializedIsComplete`, likewise | |
| `NumbersReadBack` | `ParseSerial` undoes `FormatSerial` | `CACommandsProofs` |
| `CommandsInvariance` | the inductive invariant | |
| `CommandTypes` | `TypeOK` | |
| `ListAgreesWithVerify` | `ListAndVerifyAgree` | |
| `ReportedAsRecorded` | `RevokedIsListed` | |
| `RevocationIsForEver` | `RevokedForEver` | |
| `PeriodsAreKept` | `PeriodAsAsked` | |
| `TextsAreNames` | `SerialTextIsItsName` | |
| `TogetherInvariance` | the inductive invariant | `CAConcurrentProofs` |
| `TogetherTypeCorrect` | `TypeOK` | |
| `SafeBeside` | `SafeTogether` | |
| `HistoryTogether` | `NothingIsUndone` | |
| `StagedFilesStay` | `StagedStays` | |
| `CounterIsThere` | `CounterWaits` | |
| `VerdictsAreHonest` | `VerdictIsHonest` | |
| `JoinSplit` | `Split` undoes `JoinWithCommas` | `CANamesProofs` |
| `PrintedReads` | `ParseDN` reads what `FormatDN` prints as the same name | |
| `RequestInvariance` | the inductive invariant | `CARequestProofs` |
| `RequestTypeCorrect` | `TypeOK` | |
| `KeysAreSaved` | `CertifiedKeyWasSaved` | |
| `PairsMatch` | `PairMatches` | |
| `NamesAreAsTyped` | `NameAsTyped` | |
| `RefusalsAreExact` | `RefusedExactlyIfMalformed` | |
| `ListedNamesReadBack` | `ListedNameReadsBack` | |

**Types.** `TypeOK` is not inductive, because a rename puts in place whatever is
in the `.tmp` file. `TypeInv` adds `StagedOK`: during the stage phase the writes
before `pos` are in their `.tmp` files, during the commit phase those from `pos`
on; and `PlanOK`: no plan writes a path twice, so that staging one file does not
disturb another. That is why a stale `.tmp` file does no harm.

**Safety.** The safety invariants are not inductive either. `SafeInv` is
`DiskInv`, which holds of the disk between any two renames, and `RunInv`, which
says for each command which of its renames are done (`Done`) and that nothing it
has read has changed since: the serial of a running sign is still the value of
the counter, or one below it after the first rename, and its certificate is not
there until the second. `DiskInv` contains `InCommitOrder`, the order in which
init makes files appear: it is what makes a second init over a partial one safe,
since a key is only ever replaced while there is no certificate. Each rename has
a lemma that it keeps `DiskInv` (`InitPut`, `SerialPut`, `CertificatePut`,
`IndexPut`, `CrlPut`, `CrlNumberPut`), and each command one that its renames
meet the hypotheses of these and keep `RunInv`.

**History.** The action properties follow from `SafeInv` through one lemma,
`RenameEffect`, which lists what a rename can do to the disk; no other step
changes it.

**Refinement.** The same lemma gives the steps of the registry: a rename of
`index.json` is `Create`, `Issue` or `Revoke` by the command it belongs to, one
of `serial` is `Reserve` once there is an index, one of `ca.crl` is `Publish`,
and any other leaves what the registry sees as it was. What the mapping reads
off the index, `Issued`, is a function from serials, so the proof needs that
serials increase along it; and since `Revoke` of the registry gives a reason
together with the mark, it needs `ReasonsAreRecorded`.

**Only writes fail.** The theorems of `CAWriteFaultProofs` have the hypothesis
`OnlyWritesFail`, `Faults \subseteq {"write"}`. It cannot be dropped: the
violation runs of section 3 break these promises with a failed rename or a
crash, and a crash leaves `.tmp` files behind. Under it a command that has begun to
rename ends with its last rename. `FromBefore` says that up to the first rename
the files are those the command began on, and from then on those with a prefix
of the plan over them; `Settled`, that certificates, counter and index agree
but for the certificate a running sign has placed and not yet listed.

**Commands.** `CACommands` writes numbers as text, and all its properties rest
on `NumbersReadBack`. The digits of a number are a recursive function. The
induction theorems of the library take an operator as their parameter, so the
proof takes the least number for which the fact fails (`LeastElement`, from the
well-foundedness of `<`) and derives it from the smaller ones; that the
recursive definitions have a value at all is shown the same way
(`ReadingExists`, `WritingExists`). The invariant `CmdInv` relates the index, as
text, to the certificates and the list, as numbers: serials increase along the
index, so looking one up finds the one entry with it (`EntryFound`), and each
certificate has the period its entry shows. A period that fits in a duration is
not cut by it (`PeriodHolds`); one that does not fit wraps around, in the
certificate and in the index alike, which is why `ListAndVerifyAgree` needs no
bound on it. Its first half holds under any list, because no published list
revokes what the index does not.

**Together.** In `CAConcurrent` each writer keeps the invariant proved for it
alone, although the other changes the disk under it. For the operator's
commands this is `JobBesideIssuer`: once there is an index they write no file the
job does, and before that the job writes none (`JobNeedsIndex`). The job's own
`RunInv` does not survive, because the index it read may grow beside it; `JobRun`
asks only that the index still revokes all the job has read as revoked and that
the counter is as it was, and that is enough for its renames to keep `DiskInv`. The verifier may
meet a newer list than the one it found: `ListOnlyGrows`. The lemmas `SameX`
state that the definitions of `CAFiles`, which every instance carries under its
own names, agree.

**Requests.** The theorems about the files of `ca request` assume nothing about
names. `RequestInv` adds to the two properties what is in the `.tmp` file before the
key is renamed (`KeyStaged`), that the key is under its path and recorded as
saved when the request is about to be written (`KeyPlaced`), and that a command
under way has reported nothing (`JobInv`), so that what it does to the files
cannot spoil what the last one reported. `RequestTypes` adds what a running job
holds.

**Names.** The three properties about names hold for lines of any number of
parts, of any length, over any words. The folds are recursive functions, so that
they have a value at each position is proved first (`RecursionExists`,
`RecursionStays`), from a set of numbers with 0 and the successors of its
members being all of them (`SetInduction`), and then what they compute:
`JoinSplit`; that picking from a concatenation is picking from both
(`PickConcat`); that equal selections pick equal values (`PickAgrees`). One
component is a matter of positions and needs no induction: a text of the form
of the grammar is accepted with the type and the value the grammar gives it
(`AttributeReads`, `PrefixedReads`), and a text that is accepted has that form
(`ComponentShows`, `SanShows`). Together, `ParsedIs`: of every line the parsers
accept exactly the well-formed ones and those of separators only, and make of
them what was meant, but for the common names before the last (`KeptName`,
`KeptAsTyped`). For
`PrintedReads` the components that `FormatDN` prints are taken as parts with the
values they were printed from, so that what is proved of typed lines applies to
printed ones. The invariant `NamesInv` then only has to carry this from the job
to the file and from the file to the certificate.

**Only model-checked.** `Terminates`: liveness under fairness is out of the
prover's reach. That a promise is broken, in the seven violation runs, is a
trace of TLC's.

## 5. What is not modelled

- *Two processes that write the same file*: assumption A-2 excludes them and the
  code does not; `CAConcurrent` covers the combinations that remain.
- *Power loss*: the code never calls fsync; `"crash"` kills the process, after
  which the file system still has all its system calls, in order. What remains
  after a power loss depends on the file system and on nothing in this code.
- *The data directory's place*: `resolveDataDir` picks the flag, the variable
  or the default; every command here works on one directory.
- *The flag package*: arguments parse or do not.
- *Requests made elsewhere*: their names may hold commas or attributes `FormatDN`
  does not print, so `ListedNameReadsBack` is about requests of `ca request`.
- *Cryptography*: a signature is the key that made it; extensions and signature
  algorithms are set by straight-line code and encoded by the library.
- *Output*: tables and summaries.
- `SaveCertPEM`, `SaveCRLPEM` and `WriteCounter` have no caller.

Four things the properties leave out, each by a condition of its own. In the
first three the code departs from its documents; no document settles the last.

- Of several common names in `--subject` only the last is kept (`dn.go:39`),
  where CON-BD-020 has the request's subject match the flag. `NameAsTyped` then
  speaks of the other attributes and the alternative names.
- A subject of separators only, a comma for one, is accepted as an empty name
  (`dn.go:24`), where CON-BD-019 and ADR-004 ask for a non-empty one.
  `RefusedExactlyIfMalformed` and, for the text in the index,
  `ListedNameReadsBack` do not speak of it.
- Days that overflow a duration, 106752 for one, give a certificate that ends
  before it begins (`ca.go:337`), where SPEC.md has a validity in days: the slip
  `CommandsOverflow` shows of hours. `PeriodAsAsked` is about days that fit.
- A request that fails on paths used before leaves the old request beside a new
  key. `PairMatches` is about the last command, if it succeeded.

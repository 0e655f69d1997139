----------------------------- MODULE CARegistry -----------------------------
(***************************************************************************)
(* What the certificate authority promises, with no files in it: one key   *)
(* for life, serial numbers that are reserved before they are used and     *)
(* never used twice, certificates that are only ever added or revoked, and *)
(* published lists that hold exactly what is revoked at that moment.       *)
(*                                                                         *)
(* Every operation is one atomic step.  CAStore implements it with a       *)
(* sequence of renames that may stop half way.                             *)
(***************************************************************************)
EXTENDS Naturals

CONSTANTS
    Keys,
    Subjects,
    Reasons,
    Code,          \* [Reasons -> code a reason is published under]
    MaxSerial,     \* bound on the serial numbers issued
    MaxCRLNumber   \* bound on the numbers of published lists

VARIABLES
    authority,  \* {} before `ca init`, then {key}
    next,       \* the next serial number to reserve
    issued,     \* [serial -> [subject, signer, reason]], reason "" if active
    crl         \* {} before `ca crl`, then {the published list}

vars == <<authority, next, issued, crl>>

Issued == DOMAIN issued
Active == ""

(* The revoked certificates, as a list publishes them. *)
Revoked ==
    {[serial |-> n, code |-> Code[issued[n].reason]] :
        n \in {m \in Issued : issued[m].reason # Active}}

Init ==
    /\ authority = {}
    /\ next = 2
    /\ issued = [n \in {} |-> Active]
    /\ crl = {}

Create(k) ==
    /\ authority = {}
    /\ authority' = {k}
    /\ UNCHANGED <<next, issued, crl>>

(* A reserved number may never be used: a command that fails leaves a gap. *)
Reserve ==
    /\ authority # {}
    /\ next <= MaxSerial
    /\ next' = next + 1
    /\ UNCHANGED <<authority, issued, crl>>

Issue(n, s) ==
    /\ n < next
    /\ \A m \in Issued : m < n
    /\ \E k \in authority :
        issued' = [m \in Issued \cup {n} |->
                     IF m = n
                     THEN [subject |-> s, signer |-> k, reason |-> Active]
                     ELSE issued[m]]
    /\ UNCHANGED <<authority, next, crl>>

Revoke(n, r) ==
    /\ n \in Issued
    /\ issued[n].reason = Active
    /\ issued' = [issued EXCEPT ![n].reason = r]
    /\ UNCHANGED <<authority, next, crl>>

(* A number may be published again after a failure, never a smaller one. *)
Publish(m) ==
    /\ \A c \in crl : c.number <= m
    /\ \E k \in authority : crl' = {[number |-> m, revoked |-> Revoked, signer |-> k]}
    /\ UNCHANGED <<authority, next, issued>>

Next ==
    \/ \E k \in Keys : Create(k)
    \/ Reserve
    \/ \E n \in 2 .. MaxSerial, s \in Subjects : Issue(n, s)
    \/ \E n \in Issued, r \in Reasons : Revoke(n, r)
    \/ \E m \in 1 .. MaxCRLNumber : Publish(m)

Spec == Init /\ [][Next]_vars

=============================================================================

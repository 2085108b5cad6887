---------------------------- MODULE EvidenceBundle ----------------------------
(***************************************************************************)
(* The evidence bundle of a change (internal/evidence, internal/audit):    *)
(* Export takes a snapshot of the state file, Verify works on the bundle   *)
(* alone, long after and elsewhere.  A digest of a section is the section. *)
(***************************************************************************)
EXTENDS Outcomes

-----------------------------------------------------------------------------
(* audit.Verify *)

ChainOf(org) == SelectSeq(audits, LAMBDA e : e.org = org)

\* Events without a hash come first; every other one is linked to the event before
\* it and has the digest of its own content.
VerifyAuditChain(chain) ==
  \A i \in 1 .. Len(chain) :
    IF chain[i].hash = NoHash THEN \A j \in 1 .. i : chain[j].hash = NoHash
    ELSE /\ chain[i].prev = IF i = 1 THEN NoHash ELSE Anchor(chain[i - 1])
         /\ chain[i].hash = Digest(chain[i])

-----------------------------------------------------------------------------
(* Export *)

\* allowEnum: statuses that are not on the list are not passed on.
AllowedIntegrationStatuses == {"RUNNING", "SUCCESS", "FAILED"}
AllowedEnum(v, allowed) == IF v \in allowed THEN v ELSE "UNKNOWN"

SanitizeIntegrations(c) ==
  {[key |-> e.key, status |-> AllowedEnum(e.status, AllowedIntegrationStatuses),
    occurred |-> e.occurred] : e \in {e \in ToSet(events) : e.change = c /\ e.org = OrgOf[c]}}

SanitizeOutcomes(c) ==
  {[key |-> s.key, kind |-> s.kind, status |-> s.status, occurred |-> s.occurred] :
     s \in {s \in ToSet(signals) : s.change = c /\ s.org = OrgOf[c]}}

ProofNode(e, c) ==
  [id |-> e.of, prev |-> e.prev, hash |-> e.hash, digest |-> Digest(e), target |-> e.change = c]

\* buildAuditEvidence: the whole chain of the organisation, without the content of
\* events of other changes, and the events of the change.
AuditProof(c) ==
  LET chain == ChainOf(OrgOf[c]) IN [i \in 1 .. Len(chain) |-> ProofNode(chain[i], c)]
Summary(node) == [id |-> node.id, prev |-> node.prev, hash |-> node.hash, digest |-> node.digest]
TargetAudits(proof) ==
  LET targets == SelectSeq(proof, LAMBDA node : node.target)
  IN  [i \in 1 .. Len(targets) |-> Summary(targets[i])]

SectionNames == {"change", "ci_events_outcomes", "audits", "audit_proof"}

\* A bundle of sections with its manifest; the rules and passports of the change
\* are taken over as they are and left out here.
BundleOf(binding, sections) ==
  [binding |-> binding, sections |-> sections, manifest |-> <<binding, sections>>]

Binding(c) == [id |-> c, org |-> OrgOf[c], version |-> changeOf[c].version]

\* The sections with the given proof.
Sections(c, proof) ==
  [change |-> Binding(c),
   ci_events_outcomes |-> <<SanitizeIntegrations(c), SanitizeOutcomes(c)>>,
   audits |-> TargetAudits(proof),
   audit_proof |-> proof]

CanExport(c) == VerifyAuditChain(ChainOf(OrgOf[c]))
Export(c) == BundleOf(Binding(c), Sections(c, AuditProof(c)))

-----------------------------------------------------------------------------
(* Verify *)

\* Mutant of VerifyAuditProof: the links are taken on trust.
VerifyAuditProofUnlinked(found, proof) ==
  /\ \A i \in 1 .. Len(proof) : proof[i].hash # NoHash => proof[i].hash = proof[i].digest
  /\ ToSet(found) = {Summary(proof[i]) : i \in {j \in 1 .. Len(proof) : proof[j].target}}

VerifyAuditProof(found, proof) ==
  LET ids(s) == {s[i].id : i \in 1 .. Len(s)}
      anchor(node) == IF node.hash = NoHash THEN node.digest ELSE node.hash
  IN  /\ Cardinality(ids(found)) = Len(found)
      /\ \A i \in 1 .. Len(proof) :
           /\ IF proof[i].hash = NoHash
              THEN proof[i].prev = NoHash /\ \A j \in 1 .. i : proof[j].hash = NoHash
              ELSE /\ proof[i].prev = IF i = 1 THEN NoHash ELSE anchor(proof[i - 1])
                   /\ proof[i].hash = proof[i].digest
           /\ IF proof[i].target THEN Summary(proof[i]) \in ToSet(found)
              ELSE proof[i].id \notin ids(found)
      /\ ids(found) \subseteq {proof[i].id : i \in {j \in 1 .. Len(proof) : proof[j].target}}

Verify(b) ==
  /\ b.manifest = <<b.binding, b.sections>>
  /\ b.sections["change"] = b.binding
  /\ VerifyAuditProof(b.sections["audits"], b.sections["audit_proof"])

-----------------------------------------------------------------------------
(* Properties *)

\* Whatever was recorded, by whichever organisation and release, every change can
\* be exported and its bundle verifies.
ExportsVerify == \A c \in Existing : CanExport(c) /\ Verify(Export(c))

\* A bundle in which a section is replaced by that of another change does not
\* verify, unless it is the same.
SectionsAreBound ==
  \A c \in Existing : LET b == Export(c) IN
    \A d \in Existing \ {c} : LET other == Export(d).sections IN
      \A name \in SectionNames :
        Verify([b EXCEPT !.sections[name] = other[name]]) => b.sections[name] = other[name]

\* A proof from which an event is cut out verifies, even with a manifest made
\* anew, only if it was the last one, or one of an older release that no hash covers.
ProofIsRigid ==
  \A c \in Existing :
    LET proof == AuditProof(c)
    IN  \A i \in 1 .. Len(proof) :
          Verify(BundleOf(Binding(c), Sections(c, RemoveAt(proof, i)))) =>
            \/ i = Len(proof)
            \/ proof[i].hash = NoHash /\ proof[i + 1].hash = NoHash

\* A bundle proves what was exported: it verifies as it is, and not with a section of
\* another change or a shortened chain.
BundlesBind == ExportsVerify /\ SectionsAreBound /\ ProofIsRigid
=============================================================================

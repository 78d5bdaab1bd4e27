------------------------------ MODULE Validity ------------------------------
(***************************************************************************)
(* The lifetimes of everything the v1 protocol signs (crates/protocol/src/ *)
(* v1.rs): Grants, device certificates, locators inside device records,    *)
(* Hellos, Acks and currentness proofs.                                    *)
(*                                                                         *)
(* The checks of encodings, identities, keys, digests and signatures are   *)
(* the identity of a record or a message here: a record is the value that  *)
(* its device signed, and a message belongs to the session that sent it.   *)
(* What remains of every verify() is its arithmetic on seconds.  The       *)
(* saturating additions of u64 never saturate for clocks of this century.  *)
(***************************************************************************)
EXTENDS Integers

CONSTANTS
  Grant,                \* the Grant of each device: issued, expires
  Certificate,          \* the certificate of each device: issued, expires
  MaxClockSkew,         \* MAX_CLOCK_SKEW_SECONDS
  GrantLifetime,        \* V1_MAX_GRANT_LIFETIME_SECONDS
  CertificateLifetime,  \* V1_MAX_DEVICE_CERTIFICATE_LIFETIME_SECONDS
  LocatorLifetime,      \* V1_MAX_LOCATOR_LIFETIME_SECONDS
  HandshakeLifetime,    \* V1_MAX_HANDSHAKE_LIFETIME_SECONDS
  CurrentnessLifetime   \* V1_MAX_CURRENTNESS_LIFETIME_SECONDS

ASSUME ValidityAssumption ==
  /\ MaxClockSkew \in Nat
  /\ {GrantLifetime, CertificateLifetime, LocatorLifetime, HandshakeLifetime,
      CurrentnessLifetime} \subseteq Nat \ {0}

(* Variant: the skew is granted to the end as well.                         *)
ValidateLenientWindow(w, now, maximum) ==
  /\ w.issued < w.expires
  /\ w.issued <= now + MaxClockSkew
  /\ now < w.expires + MaxClockSkew
  /\ w.expires - w.issued <= maximum

(* validate_bounded_window: the skew is granted to the start only.          *)
ValidateBoundedWindow(w, now, maximum) ==
  /\ w.issued < w.expires
  /\ w.issued <= now + MaxClockSkew
  /\ now < w.expires
  /\ w.expires - w.issued <= maximum

(* validate_currentness_window: no skew at all.                             *)
ValidateCurrentnessWindow(w, now) ==
  /\ ValidateBoundedWindow(w, now, CurrentnessLifetime)
  /\ w.issued <= now
  /\ w.expires <= now + CurrentnessLifetime

(* One window inside another.                                               *)
Within(w, outer) == w.issued >= outer.issued /\ w.expires <= outer.expires

GrantVerifies(d, now) == ValidateBoundedWindow(Grant[d], now, GrantLifetime)

CertificateVerifies(d, now) ==
  /\ GrantVerifies(d, now)
  /\ ValidateBoundedWindow(Certificate[d], now, CertificateLifetime)
  /\ Within(Certificate[d], Grant[d])

(* A record stands for its device's certificate and its own locator.        *)
LocatorVerifies(r, now) ==
  /\ CertificateVerifies(r.device, now)
  /\ r.sequence > 0
  /\ ValidateBoundedWindow(r, now, LocatorLifetime)
  /\ Within(r, Certificate[r.device])

RecordVerifies(r, now) ==
  CertificateVerifies(r.device, now) /\ LocatorVerifies(r, now)

HelloVerifies(h, now) ==
  /\ RecordVerifies(h.sender, now)
  /\ RecordVerifies(h.target, now)
  /\ h.sender.device # h.target.device
  /\ ValidateBoundedWindow(h, now, HandshakeLifetime)
  /\ \A r \in {h.sender, h.target} :
       /\ Within(h, Certificate[r.device])
       /\ h.expires <= r.expires

AckVerifies(a, h, now) ==
  /\ HelloVerifies(h, now)
  /\ ValidateBoundedWindow(a, now, HandshakeLifetime)
  /\ Within(a, h)
  /\ \A r \in {h.sender, h.target} : Within(a, Certificate[r.device])

(* own is the record of the proof's signer.                                 *)
ProofVerifies(p, own, h, now) ==
  /\ HelloVerifies(h, now)
  /\ ValidateCurrentnessWindow(p, now)
  /\ Within(p, h)
  /\ p.expires <= own.expires

(* Each of them is signed only if it verifies at the moment of its issue.   *)
SignsLocator(r) == LocatorVerifies(r, r.issued)

SignsHello(h) == HelloVerifies(h, h.issued)

SignsAck(a, h) == AckVerifies(a, h, a.issued)

SignsProof(p, own, h) == ProofVerifies(p, own, h, p.issued)

=============================================================================

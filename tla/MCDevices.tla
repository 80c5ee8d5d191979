----------------------------- MODULE MCDevices -----------------------------
(***************************************************************************)
(* Small accounts for TLC, and the facts of Enrollment, which depend on no  *)
(* state and are checked in the first one.                                  *)
(***************************************************************************)
EXTENDS Devices, Enrollment

MCNobody == <<>>
MCTwo == <<"a", "x">>

Start == rows = [i \in DOMAIN Enrolled |-> rows[i]] /\ removals = 0 /\ faults = 0
             /\ made = Len(Enrolled) /\ peer = NoPeer
             /\ \A c \in Clients : journal[c].phase \in {"none", "complete"}

\* Different things to sign have different bytes (device_signatures.rs).
SignedBytesAreUnambiguous == Start => SignedBytesDiffer

\* A claimed bundle verifies exactly as it was cross-signed.
BundleBindsEveryField == Start => BundleIsWhatWasSigned

\* A new recovery secret keeps the identity, and only it opens the new backup.
IdentityOutlivesItsSecret == Start => IdentityOutlivesSecret

\* What is accepted as a recovery secret spells that secret.
RecoveryTextIsOne == Start => SecretIsOneText

\* A device label opens for its device and account only.
LabelOpensForItsDevice == Start => LabelIsOfItsDevice

\* A log record is confirmed by exactly the list it was signed over.
RecordCoversItsList == Start => RecordIsOfItsList

\* Safety numbers agree exactly when both sides have the real keys.
SafetyNumberAgrees == Start => SafetyNumberIsShared

\* What is signed, sealed or spelled says one thing: signed bytes, bundles, backups, recovery
\* texts, labels, log records and safety numbers (enrollment.rs, device_signatures.rs).
SignedSaysOneThing ==
    /\ SignedBytesAreUnambiguous /\ BundleBindsEveryField /\ IdentityOutlivesItsSecret
    /\ RecoveryTextIsOne /\ LabelOpensForItsDevice /\ RecordCoversItsList /\ SafetyNumberAgrees
=============================================================================

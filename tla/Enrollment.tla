----------------------------- MODULE Enrollment -----------------------------
(***************************************************************************)
(* What the crypto core does for the devices of an account (enrollment.rs,  *)
(* device_signatures.rs): the bytes it signs, the packages it hands to the  *)
(* application, the recovery secret and the backup it opens, device labels  *)
(* and the records of the device log.                                       *)
(*                                                                          *)
(* A key pair is one value, and its public half is that value.  A hash, a   *)
(* signature and a ciphertext record what they were made from.  An id is    *)
(* one byte.  A refusal is the empty set, an answer a set of one element.   *)
(* Left out: zeroization, and the padding that fills a blob to its size,    *)
(* except where a hash covers it.                                           *)
(***************************************************************************)
EXTENDS Integers, SequencesExt, FiniteSets

CONSTANTS ENTROPY,     \* bytes of entropy in a recovery secret
          CHECKSUM,    \* bytes of its checksum
          GROUP,       \* characters between two dashes of its text
          MAX_LABEL,   \* characters a device label holds
          MAX_LABEL_BYTES   \* and bytes

ASSUME EnrollmentAssumption ==
    ENTROPY \in Nat \ {0} /\ CHECKSUM \in Nat \ {0}
    /\ GROUP \in Nat \ {0} /\ MAX_LABEL \in Nat \ {0}
    /\ MAX_LABEL_BYTES \in Nat \ {0}

-----------------------------------------------------------------------------
(* Primitives.                                                              *)

sha256(x) == <<x>>

ed25519_sign(key, bytes) == [by |-> key, over |-> bytes]

ed25519_verify(public, bytes, signature) == signature = ed25519_sign(public, bytes)

\* Encryption binds a plaintext to its key and to the data it authenticates.
Encrypt(key, aad, plain) == [key |-> key, aad |-> aad, plain |-> plain]

Decrypt(key, aad, sealed) ==
    IF sealed.key = key /\ sealed.aad = aad THEN {sealed.plain} ELSE {}

-----------------------------------------------------------------------------
(* The bytes a signature covers: a domain, then every field behind its      *)
(* length.  No domain begins another.                                       *)

CROSS_SIGNATURE_DOMAIN == 101
MASTER_SIGNATURE_DOMAIN == 102
SIGNED_PREKEY_DOMAIN == 103
PQ_SIGNED_PREKEY_DOMAIN == 104
USER_ATTESTATION_DOMAIN == 105
DEVICE_LOG_DOMAIN == 106
SAFETY_FINGERPRINT_DOMAIN == 107

\* A field written without its length.
fieldBare(bytes) == bytes

field(bytes) == <<Len(bytes)>> \o bytes

Encoded(domain, fields) ==
    <<domain>> \o FlattenSeq([i \in DOMAIN fields |-> field(fields[i])])

\* A signature that does not cover the post-quantum prekey.
encode_cross_signatureClassical(b) ==
    Encoded(CROSS_SIGNATURE_DOMAIN,
        << <<b.user>>, <<b.device>>, b.ik, <<b.spk_id>>, b.spk,
           <<b.registration>>, <<b.version>> >>)

\* The two fields of a post-quantum prekey stay, empty, when there is none.
encode_cross_signature(b) ==
    Encoded(CROSS_SIGNATURE_DOMAIN,
        << <<b.user>>, <<b.device>>, b.ik, <<b.spk_id>>, b.spk >>
        \o (IF b.pq = <<>> THEN << <<>>, <<>> >> ELSE << <<b.pq[1].id>>, b.pq[1].public >>)
        \o << <<b.registration>>, <<b.version>> >>)

encode_master_signature(i) ==
    Encoded(MASTER_SIGNATURE_DOMAIN, << <<i.user>>, i.self_signing, i.user_signing >>)

encode_prekey(domain, user, id, public) ==
    Encoded(domain, << <<user>>, <<id>>, public >>)

encode_signed_prekey(user, id, public) ==
    encode_prekey(SIGNED_PREKEY_DOMAIN, user, id, public)

encode_pq_signed_prekey(user, id, public) ==
    encode_prekey(PQ_SIGNED_PREKEY_DOMAIN, user, id, public)

encode_user_attestation(signer, peer, master) ==
    Encoded(USER_ATTESTATION_DOMAIN, << <<signer>>, <<peer>>, master >>)

\* Every field of a log record has a fixed length.
encode_device_log_signature(r) ==
    <<DEVICE_LOG_DOMAIN, r.user, r.sequence, r.previous, r.live, r.version, r.day>>

-----------------------------------------------------------------------------
(* Packages.                                                                *)

INITIAL_CLASSICAL == 8
INITIAL_PQ == 4

device_signing_public(ik) == ik[1]

\* Fresh keys of a device; seed stands for the random bytes.
prepare_device(user, seed) ==
    LET ik == <<seed, seed + 1>>
        spk == <<seed + 2>>
        pq == <<seed + 3>>
    IN  [user |-> user, registration |-> seed, spk_id |-> 1, pq_id |-> 1,
         classical |-> INITIAL_CLASSICAL, post_quantum |-> INITIAL_PQ,
         ik |-> ik, spk |-> spk, pq |-> pq,
         spk_signature |-> ed25519_sign(seed, encode_signed_prekey(user, 1, spk)),
         pq_signature |-> ed25519_sign(seed, encode_pq_signed_prekey(user, 1, pq)),
         fingerprint |-> sha256(ik)]

parse_device_package(p) ==
    IF /\ p.classical \in 1 .. INITIAL_CLASSICAL
       /\ p.post_quantum \in 1 .. INITIAL_PQ
       /\ p.fingerprint = sha256(p.ik)
       /\ ed25519_verify(device_signing_public(p.ik),
                         encode_signed_prekey(p.user, p.spk_id, p.spk), p.spk_signature)
       /\ ed25519_verify(device_signing_public(p.ik),
                         encode_pq_signed_prekey(p.user, p.pq_id, p.pq), p.pq_signature)
    THEN {p} ELSE {}

Publics(user, secrets) ==
    [user |-> user, self_signing |-> <<secrets.self_signing>>,
     user_signing |-> <<secrets.user_signing>>]

\* A package of the account identity: the recovery secret and the backup are
\* there for one display, and the flags say which of them are.
encode_identity_package(user, secrets, recovery, backup) ==
    [flags |-> {f \in {"recovery", "backup"} :
                    IF f = "recovery" THEN recovery # <<>> ELSE backup # <<>>},
     user |-> user, master |-> secrets.master, self_signing |-> secrets.self_signing,
     user_signing |-> secrets.user_signing,
     master_signature |-> ed25519_sign(secrets.master,
                              encode_master_signature(Publics(user, secrets))),
     secrets |-> secrets, recovery |-> recovery, backup |-> backup]

parse_identity_package(p) ==
    IF /\ p.flags \subseteq {"recovery", "backup"}
       /\ ("recovery" \in p.flags) # (p.recovery = <<>>)
       /\ ("backup" \in p.flags) # (p.backup = <<>>)
       /\ p.secrets = [master |-> p.master, self_signing |-> p.self_signing,
                       user_signing |-> p.user_signing]
       /\ ed25519_verify(p.master, encode_master_signature(Publics(p.user, p.secrets)),
                         p.master_signature)
    THEN {p} ELSE {}

-----------------------------------------------------------------------------
(* The recovery secret: entropy and its checksum, written in base 32.  A    *)
(* byte string is its length and the number it spells.                      *)

ALPHABET == <<"0", "1", "2", "3", "4", "5", "6", "7", "8", "9",
              "A", "B", "C", "D", "E", "F", "G", "H", "J", "K", "M",
              "N", "P", "Q", "R", "S", "T", "V", "W", "X", "Y", "Z">>

Lower == [a |-> "A", g |-> "G", h |-> "H", i |-> "I", l |-> "L", o |-> "O"]

to_ascii_uppercase(c) == IF c \in DOMAIN Lower THEN Lower[c] ELSE c

Separators == {"-", " "}

\* What a character stands for; "O" reads as zero, "I" and "L" as one.
crockford_value(c) ==
    IF c = "O" THEN {0}
    ELSE IF c \in {"I", "L"} THEN {1}
    ELSE {n \in 0 .. 31 : ALPHABET[n + 1] = c}

\* The number that digits spell in a base.
Spelled(base, digits) == FoldLeft(LAMBDA n, d : n * base + d, 0, digits)

\* The last character is filled with zero bits.
crockford_encode(payload) ==
    LET count == (8 * payload.length + 4) \div 5
        number == payload.number * 2 ^ (5 * count - 8 * payload.length)
    IN  [i \in 1 .. count |-> ALPHABET[1 + ((number \div 32 ^ (count - i)) % 32)]]

\* The decoder without the test of the bits that fill the last character.
crockford_decodeAnyTail(text) ==
    IF \E i \in DOMAIN text : crockford_value(text[i]) = {} THEN {}
    ELSE LET number == Spelled(32, [i \in DOMAIN text |->
                                        CHOOSE v \in crockford_value(text[i]) : TRUE])
             bits == (5 * Len(text)) % 8
         IN  {[length |-> (5 * Len(text)) \div 8, number |-> number \div 2 ^ bits]}

crockford_decode(text) ==
    IF \E i \in DOMAIN text : crockford_value(text[i]) = {} THEN {}
    ELSE LET number == Spelled(32, [i \in DOMAIN text |->
                                        CHOOSE v \in crockford_value(text[i]) : TRUE])
             bits == (5 * Len(text)) % 8
         IN  IF number % 2 ^ bits # 0 THEN {}
             ELSE {[length |-> (5 * Len(text)) \div 8, number |-> number \div 2 ^ bits]}

group_recovery_secret(text) ==
    FlattenSeq([i \in DOMAIN text |->
        IF i > 1 /\ i % GROUP = 1 % GROUP THEN <<"-", text[i]>> ELSE <<text[i]>>])

\* The first bytes of the digest of the entropy; any function will do.
Checksum(entropy) == (entropy + 1) % 2 ^ (8 * CHECKSUM)

encode_recovery_secret(entropy) ==
    group_recovery_secret(crockford_encode(
        [length |-> ENTROPY + CHECKSUM,
         number |-> entropy * 2 ^ (8 * CHECKSUM) + Checksum(entropy)]))

normalize_recovery_secret(text) ==
    LET typed == SelectSeq(text, LAMBDA c : c \notin Separators)
        compact == [i \in DOMAIN typed |-> to_ascii_uppercase(typed[i])]
    IN  {group_recovery_secret(crockford_encode(p)) : p \in
            {q \in crockford_decode(compact) :
                /\ q.length = ENTROPY + CHECKSUM
                /\ q.number % 2 ^ (8 * CHECKSUM)
                     = Checksum(q.number \div 2 ^ (8 * CHECKSUM))}}

-----------------------------------------------------------------------------
(* The backup of the identity, under the recovery secret.                   *)

BACKUP_PARAMETERS == "argon2id-64MiB-3-1"

argon2id(password, salt) == [password |-> password, salt |-> salt]

backup_header(salt) == [parameters |-> BACKUP_PARAMETERS, salt |-> salt]

backup_aad(header, user) == [header |-> header, user |-> user]

encrypt_backup(user, secrets, recovery, salt) ==
    LET header == backup_header(salt)
    IN  [header |-> header,
         sealed |-> Encrypt(argon2id(recovery, salt), backup_aad(header, user),
                            [user |-> user, secrets |-> secrets])]

decrypt_backup(user, recovery, backup) ==
    IF backup.header.parameters # BACKUP_PARAMETERS THEN {}
    ELSE {p.secrets : p \in
            {q \in Decrypt(argon2id(recovery, backup.header.salt),
                           backup_aad(backup.header, user), backup.sealed) :
                q.user = user}}

prepare_first_identity(user, secrets, entropy, salt) ==
    LET recovery == encode_recovery_secret(entropy)
    IN  encode_identity_package(user, secrets, recovery,
            <<encrypt_backup(user, secrets, recovery, salt)>>)

\* A restore that uses the secret as it was typed.
restore_identityAsTyped(user, typed, backup) ==
    {encode_identity_package(user, s, <<>>, <<>>) : s \in decrypt_backup(user, typed, backup)}

restore_identity(user, typed, backup) ==
    UNION {{encode_identity_package(user, s, <<>>, <<>>) :
                s \in decrypt_backup(user, recovery, backup)} :
           recovery \in normalize_recovery_secret(typed)}

sanitize_identity_package(package) ==
    {encode_identity_package(p.user, p.secrets, <<>>, <<>>) :
        p \in parse_identity_package(package)}

\* The same identity under a new secret, for one display.
rotate_recovery_secret(package, entropy, salt) ==
    LET recovery == encode_recovery_secret(entropy)
    IN  {encode_identity_package(p.user, p.secrets, recovery,
             <<encrypt_backup(p.user, p.secrets, recovery, salt)>>) :
         p \in parse_identity_package(package)}

-----------------------------------------------------------------------------
(* Device labels, sealed for the account.                                   *)

\* A label bound to the account and not to the device.
device_label_aadAnyDevice(user, device) == [user |-> user, device |-> 0]

device_label_aad(user, device) == [user |-> user, device |-> device]

\* A label is the widths of its characters, in bytes.
LabelFits(label) ==
    /\ Len(label) \in 1 .. MAX_LABEL
    /\ FoldLeft(LAMBDA n, w : n + w, 0, label) <= MAX_LABEL_BYTES

label_key(identity, user) == [secret |-> identity.secrets.self_signing, user |-> user]

seal_device_label(package, user, device, label) ==
    {Encrypt(label_key(p, user), device_label_aad(user, device), label) : p \in
        {q \in parse_identity_package(package) :
            q.user = user /\ LabelFits(label)}}

open_device_label(package, user, device, sealed) ==
    UNION {{l \in Decrypt(label_key(p, user), device_label_aad(user, device), sealed) :
                LabelFits(l)} :
           p \in {q \in parse_identity_package(package) : q.user = user}}

-----------------------------------------------------------------------------
(* Cross-signed bundles.                                                    *)

cross_sign_device(package, identity_package, device, version) ==
    IF version = 0 THEN {}
    ELSE {ed25519_sign(i.secrets.self_signing,
              encode_cross_signature(
                  [user |-> d.user, device |-> device, ik |-> d.ik, spk_id |-> d.spk_id,
                   spk |-> d.spk, pq |-> <<[id |-> d.pq_id, public |-> d.pq]>>,
                   registration |-> d.registration, version |-> version])) :
          <<d, i>> \in {pair \in parse_device_package(package)
                                   \X parse_identity_package(identity_package) :
                            pair[1].user = pair[2].user}}

verify_published_identity(i) ==
    ed25519_verify(i.master, encode_master_signature(i), i.master_signature)

\* A bundle a peer claimed; b.pq is empty or holds the prekey and its signature.
verify_claimed_device_bundle(b) ==
    /\ Len(b.spk) = 1
    /\ b.pq # <<>> => Len(b.pq[1].public) = 1
    /\ b.version # 0
    /\ ed25519_verify(device_signing_public(b.ik),
                      encode_signed_prekey(b.user, b.spk_id, b.spk), b.spk_signature)
    /\ b.pq # <<>> =>
           ed25519_verify(device_signing_public(b.ik),
               encode_pq_signed_prekey(b.user, b.pq[1].id, b.pq[1].public),
               b.pq[1].signature)
    /\ ed25519_verify(b.self_signing, encode_cross_signature(b), b.cross_signature)

-----------------------------------------------------------------------------
(* The device log.  A device of a list is its id, keys, registration id,    *)
(* cross-signature (empty, or one byte) and bundle version.                 *)

LiveSetBytes(devices) ==
    <<Len(devices)>> \o FlattenSeq([i \in DOMAIN devices |->
        <<devices[i].device>> \o field(devices[i].ik) \o <<devices[i].registration>>
        \o field(devices[i].signature) \o <<devices[i].version>>])

\* The devices hashed in the order the server listed them.
hash_canonical_live_setAsListed(devices) == sha256(LiveSetBytes(devices))

hash_canonical_live_set(devices) ==
    sha256(LiveSetBytes(SortSeq(devices, LAMBDA d, e : d.device < e.device)))

\* No previous record is the hash of zeros, here the empty one.
create_device_log_record(package, user, sequence, previous, live, version, day, padding) ==
    IF version = 0 THEN {}
    ELSE {LET body == [user |-> user, sequence |-> sequence, day |-> day,
                       version |-> version, previous |-> previous, live |-> sha256(live),
                       padding |-> padding]
          IN  body @@ [signature |-> ed25519_sign(p.secrets.self_signing,
                                         encode_device_log_signature(body))] :
          p \in {q \in parse_identity_package(package) : q.user = user}}

inspect_log_with_public(user, self_signing, expected, record) ==
    IF /\ record.user = user
       /\ expected # <<>> => record.live = expected
       /\ ed25519_verify(self_signing, encode_device_log_signature(record), record.signature)
    THEN {[sequence |-> record.sequence, previous |-> record.previous,
           hash |-> sha256(record), live |-> record.live, version |-> record.version]}
    ELSE {}

inspect_device_log_record(package, user, record) ==
    UNION {{[sequence |-> r.sequence, previous |-> r.previous, hash |-> r.hash] :
                r \in inspect_log_with_public(user, p.self_signing, <<>>, record)} :
           p \in {q \in parse_identity_package(package) : q.user = user}}

MAX_LOG_DEVICES == 100

inspect_peer_device_log_record(user, self_signing, verify_live_set, devices, record) ==
    IF \/ Len(devices) > MAX_LOG_DEVICES
       \/ \E i \in DOMAIN devices :
              (devices[i].signature = <<>>) # (devices[i].version = 0)
    THEN {}
    ELSE inspect_log_with_public(user, self_signing,
             IF verify_live_set THEN hash_canonical_live_set(devices) ELSE <<>>, record)

-----------------------------------------------------------------------------
(* What two people compare, and what one of them signs.                     *)

\* The number of the two pairs in the order they were given.
safety_fingerprintAsGiven(user, master, peer, peer_master) ==
    sha256(Encoded(SAFETY_FINGERPRINT_DOMAIN, << <<user>>, master, <<peer>>, peer_master >>))

safety_fingerprint(user, master, peer, peer_master) ==
    sha256(Encoded(SAFETY_FINGERPRINT_DOMAIN,
        IF user <= peer THEN << <<user>>, master, <<peer>>, peer_master >>
                        ELSE << <<peer>>, peer_master, <<user>>, master >>))

attest_peer_master(package, peer, master) ==
    {ed25519_sign(p.secrets.user_signing, encode_user_attestation(p.user, peer, master)) :
        p \in parse_identity_package(package)}

verify_user_attestation(signer, public, peer, master, signature) ==
    ed25519_verify(public, encode_user_attestation(signer, peer, master), signature)

-----------------------------------------------------------------------------
(* What these operations promise each other.                                *)

Users == {1, 2}
Short == {<<1>>, <<1, 1>>, <<2, 1>>}

Bundles ==
    [user : Users, device : Users, ik : {<<1, 1>>, <<1, 2>>}, spk_id : Users, spk : Short,
     pq : {<<>>} \cup {<<k>> : k \in [id : Users, public : Short]},
     registration : Users, version : Users]

Prekeys == [user : Users, id : Users, public : Short]

Identities == [user : Users, self_signing : Short, user_signing : Short]

Attestations == [signer : Users, peer : Users, master : Short]

\* Two different things to sign never give the same bytes: not two bundles, of
\* which only one may have a post-quantum prekey, not two prekeys, identities or
\* attestations, and not two of different kinds.
SignedBytesDiffer ==
    LET bundles == {encode_cross_signature(b) : b \in Bundles}
        classical == {encode_signed_prekey(k.user, k.id, k.public) : k \in Prekeys}
        pq == {encode_pq_signed_prekey(k.user, k.id, k.public) : k \in Prekeys}
        masters == {encode_master_signature(i) : i \in Identities}
        attested == {encode_user_attestation(a.signer, a.peer, a.master) :
                        a \in Attestations}
    IN  Cardinality(bundles \cup classical \cup pq \cup masters \cup attested)
          = Cardinality(Bundles) + 2 * Cardinality(Prekeys) + Cardinality(Identities)
              + Cardinality(Attestations)

SecretsOf(user) ==
    [master |-> 10 * user, self_signing |-> 10 * user + 1, user_signing |-> 10 * user + 2]

IdentityOf(user) == encode_identity_package(user, SecretsOf(user), <<>>, <<>>)

SignedBundle(p, device, version) ==
    {[user |-> p.user, device |-> device, self_signing |-> SecretsOf(p.user).self_signing,
      ik |-> p.ik, spk_id |-> p.spk_id, spk |-> p.spk, spk_signature |-> p.spk_signature,
      pq |-> <<[id |-> p.pq_id, public |-> p.pq, signature |-> p.pq_signature]>>,
      registration |-> p.registration, version |-> version, cross_signature |-> x] :
     x \in cross_sign_device(p, IdentityOf(p.user), device, version)}

\* The bundle a device is claimed with verifies exactly as it was signed.
\* Replace one of its fields, take its post-quantum prekey away, or put in
\* prekeys that the same device signed for another bundle, and it is refused.
BundleIsWhatWasSigned ==
    LET p == prepare_device(1, 50)
        next == [p EXCEPT !.spk_id = 2, !.spk = <<60>>,
                     !.spk_signature = ed25519_sign(50, encode_signed_prekey(1, 2, <<60>>))]
        other == prepare_device(1, 70)
        Edited(b) ==
            {[b EXCEPT !.user = 2], [b EXCEPT !.device = 6], [b EXCEPT !.self_signing = 21],
             [b EXCEPT !.ik = other.ik], [b EXCEPT !.ik = <<50, 71>>],
             [b EXCEPT !.spk_id = next.spk_id, !.spk = next.spk,
                       !.spk_signature = next.spk_signature],
             [b EXCEPT !.pq = <<>>], [b EXCEPT !.pq[1].id = 2],
             [b EXCEPT !.pq[1].public = <<61>>], [b EXCEPT !.registration = 70],
             [b EXCEPT !.version = @ + 1], [b EXCEPT !.version = 0]}
    IN  /\ parse_device_package(p) = {p}
        /\ cross_sign_device(p, IdentityOf(2), 5, 1) = {}
        /\ SignedBundle(p, 5, 0) = {}
        /\ \A d \in {p, next, other}, version \in {1, 2} :
               \E b \in SignedBundle(d, 5, version) :
                   /\ verify_claimed_device_bundle(b)
                   /\ \A e \in Edited(b) :
                          e # b => ~verify_claimed_device_bundle(e)

\* A secret as its owner may type it.
Typed(text) ==
    [i \in DOMAIN text |-> CASE text[i] = "0" -> "o" [] text[i] = "1" -> "l"
                             [] text[i] = "G" -> "g" [] text[i] = "-" -> " "
                             [] OTHER -> text[i]]

\* A new recovery secret changes the secret and the backup and nothing else of
\* the identity.  The backup opens for its owner with the new secret, however it
\* is typed, and gives the identity back; it opens neither with the old secret
\* nor for another account.  A package that contradicts itself is not read.
IdentityOutlivesSecret ==
    \A user \in Users, old, new \in {0, 8} :
        LET first == prepare_first_identity(user, SecretsOf(user), old, 1)
            clean == IdentityOf(user)
        IN  /\ sanitize_identity_package(first) = {clean}
            /\ verify_published_identity(
                   Publics(user, SecretsOf(user))
                   @@ [master |-> first.master, master_signature |-> first.master_signature])
            /\ \A p \in {first, clean} : \E r \in rotate_recovery_secret(p, new, 2) :
                   /\ parse_identity_package(r) = {r}
                   /\ sanitize_identity_package(r) = {clean}
                   /\ restore_identity(user, Typed(r.recovery), r.backup[1]) = {clean}
                   /\ restore_identity(3 - user, r.recovery, r.backup[1]) = {}
                   /\ old # new =>
                          restore_identity(user, first.recovery, r.backup[1]) = {}
            /\ \A p \in {[first EXCEPT !.flags = {}], [first EXCEPT !.recovery = <<>>],
                         [clean EXCEPT !.flags = {"backup"}], [clean EXCEPT !.user = 3 - user],
                         [clean EXCEPT !.self_signing = 99],
                         [clean EXCEPT !.secrets.user_signing = 99]} :
                   parse_identity_package(p) = {}

Characters == {"0", "o", "1", "L", "4", "g", "H", "-", "U"}

Symbol(c) ==
    CASE c = "o" -> "0" [] c = "L" -> "1" [] c = "g" -> "G" [] OTHER -> c

\* A text is a recovery secret or it is not: what is accepted has the characters
\* of the secret it is taken for, up to their case, their look-alikes and the
\* separators, and every secret is accepted as it was shown.
SecretIsOneText ==
    /\ \A entropy \in 0 .. 2 ^ (8 * ENTROPY) - 1 :
           LET text == encode_recovery_secret(entropy)
           IN  normalize_recovery_secret(text) = {text}
    /\ \A n \in 0 .. 5 : \A text \in [1 .. n -> Characters] :
           \A secret \in normalize_recovery_secret(text) :
               LET typed == SelectSeq(text, LAMBDA c : c \notin Separators)
               IN  [i \in DOMAIN typed |-> Symbol(typed[i])]
                     = SelectSeq(secret, LAMBDA c : c \notin Separators)

\* A sealed label opens, as it was written, for the account and the device it
\* was sealed for, and for no other device and no other account.
LabelIsOfItsDevice ==
    \A user \in Users, device \in {5, 6}, label \in {<<1>>, <<2, 1>>, <<4>>, <<1, 1, 1>>, <<>>} :
        LET sealed == seal_device_label(IdentityOf(user), user, device, label)
        IN  /\ sealed # {} <=> LabelFits(label)
            /\ \A s \in sealed, u \in Users, d \in {5, 6} :
                   open_device_label(IdentityOf(u), u, d, s)
                     = IF <<u, d>> = <<user, device>> THEN {label} ELSE {}

Listed(device, signed) ==
    [device |-> device, ik |-> <<device, device>>, registration |-> device,
     signature |-> IF signed THEN <<device>> ELSE <<>>, version |-> IF signed THEN 1 ELSE 0]

Lists ==
    UNION {{[i \in 1 .. n |-> Listed(o[i], s[i])] :
                o \in {p \in [1 .. n -> 5 .. 7] : IsInjective(p)}, s \in [1 .. n -> BOOLEAN]} :
           n \in 0 .. 3}

\* The record written over a list of devices is confirmed by every list of the
\* same devices in the same state, in any order, and by no other: not with one
\* device more or less, not with one device unsigned.  It cannot be edited.
RecordIsOfItsList ==
    \A list \in Lists :
        LET sorted == SortSeq(list, LAMBDA d, e : d.device < e.device)
        IN  sorted = list =>
            \E r \in create_device_log_record(IdentityOf(1), 1, 4, <<>>, LiveSetBytes(sorted),
                                              1, 9, 0) :
                /\ \A other \in Lists :
                       (inspect_peer_device_log_record(1, 11, TRUE, other, r) # {})
                         <=> ToSet(other) = ToSet(list)
                /\ \A e \in {[r EXCEPT !.sequence = 5], [r EXCEPT !.day = 8],
                             [r EXCEPT !.user = 2], [r EXCEPT !.version = 2],
                             [r EXCEPT !.previous = sha256(r)],
                             [r EXCEPT !.live = sha256(<<9>>)]} :
                       /\ inspect_device_log_record(IdentityOf(1), 1, e) = {}
                       /\ inspect_peer_device_log_record(1, 11, FALSE, <<>>, e) = {}
                /\ inspect_device_log_record(IdentityOf(2), 2, r) = {}
                /\ \E i \in inspect_device_log_record(IdentityOf(1), 1, r) :
                       i.hash # sha256([r EXCEPT !.padding = 1])

\* Two people see the same safety number exactly when each has the other's real
\* master key, and an attestation stands only for the key it was made for.
SafetyNumberIsShared ==
    \A a, b \in Users, seenA, seenB \in {<<10>>, <<20>>, <<30>>} :
        a # b =>
        LET mine == <<10 * a>>
            theirs == <<10 * b>>
        IN  /\ (safety_fingerprint(a, mine, b, seenB) = safety_fingerprint(b, theirs, a, seenA))
                 <=> (seenA = mine /\ seenB = theirs)
            /\ \A x \in attest_peer_master(IdentityOf(a), b, seenB), m \in {<<10>>, <<20>>} :
                   /\ verify_user_attestation(a, 10 * a + 2, b, m, x) <=> m = seenB
                   /\ ~verify_user_attestation(b, 10 * a + 2, a, m, x)
=============================================================================

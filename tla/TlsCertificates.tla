--------------------------- MODULE TlsCertificates ---------------------------
(* Certificates of src/lib/tls (certificate.rs, verifier.rs): how a node      *)
(* makes its own and which ones it accepts.  Cryptography is symbolic: a      *)
(* signature says by whom and over what it is, and what is sealed under a     *)
(* pre-shared key opens under that key only.                                  *)
EXTENDS Integers, Sequences

CONSTANTS
    HostKeys,  \* identity keys; a PeerId is the hash of one
    Psks,      \* pre-shared keys
    NoPsk,     \* Option::None
    Nothing    \* the error of a Result

ASSUME KeysAssumption ==
    /\ Nothing \notin HostKeys
    /\ NoPsk \notin Psks

-------------------------------------------------------------------------------
(* Making a certificate.                                                     *)

\* The signature of a host key over P2P_SIGNING_PREFIX and the key of a certificate.
HostSignature(host, key) == [by |-> host, over |-> key, seal |-> <<>>]

\* A seal's key is the HMAC of the pre-shared key under the public host key.
encrypt_ext_signature(signature, psk, host) == [signature EXCEPT !.seal = <<psk, host>>]
decrypt_ext_signature(signature, psk, host) ==
    IF signature.seal = <<psk, host>> THEN [signature EXCEPT !.seal = <<>>] ELSE Nothing

\* An extension: the libp2p Public Key Extension, or one with an unknown OID.
P2pExt(host, signature) ==
    [oid |-> "p2p", critical |-> TRUE, decodes |-> TRUE, key |-> host, signature |-> signature]
OtherExt(critical) == [oid |-> "other", critical |-> critical]

UnsealedExtension(host, key, psk) == P2pExt(host, HostSignature(host, key))    \* mutant
make_libp2p_extension(host, key, psk) ==
    P2pExt(host,
        IF psk = NoPsk THEN HostSignature(host, key)
        ELSE encrypt_ext_signature(HostSignature(host, key), psk, host))

\* A signature scheme of TLS is a pair: RSA_PSS_SHA256 is <<"pss", "sha256">>,
\* ECDSA_NISTP256_SHA256 <<"p256", "sha256">> and ED25519 <<"ed25519", "none">>.
P2P_SIGNATURE_ALGORITHM == <<"p256", "sha256">>
Signature(key, scheme) == [key |-> key, scheme |-> scheme]

\* The dates are those of rcgen's CertificateParams::default().
generate(host, key, psk) ==
    [spki       |-> [alg |-> "ec", curve |-> "p256", key |-> key],
     sigalg     |-> [alg |-> "ecdsa", hash |-> "sha256"],
     signature  |-> Signature(key, P2P_SIGNATURE_ALGORITHM),
     not_before |-> 1975, not_after |-> 4096,
     extensions |-> <<make_libp2p_extension(host, key, psk)>>]

-------------------------------------------------------------------------------
(* Reading one.                                                              *)

\* What is in a libp2p extension, or Nothing.
ExtensionContent(ext, psk) ==
    LET signature == IF psk = NoPsk THEN ext.signature
                     ELSE decrypt_ext_signature(ext.signature, psk, ext.key)
    IN  IF ext.decodes /\ signature # Nothing
        THEN [public_key |-> ext.key, signature |-> signature]
        ELSE Nothing

\* Positions of the libp2p extension.
P2pAt(cert) == {i \in DOMAIN cert.extensions : cert.extensions[i].oid = "p2p"}

FirstExtension(cert, psk) ==                                           \* mutant
    IF P2pAt(cert) = {} THEN Nothing
    ELSE ExtensionContent(cert.extensions[CHOOSE i \in P2pAt(cert) : \A j \in P2pAt(cert) : i <= j], psk)
\* The loop over the extensions: a second libp2p extension, one that cannot be read
\* and an unknown critical one are errors, and so is none.
parse_unverified(cert, psk) ==
    LET rejected == \E i \in DOMAIN cert.extensions :
            LET ext == cert.extensions[i]
            IN  IF ext.oid = "p2p"
                THEN \/ \E j \in P2pAt(cert) : j < i
                     \/ ExtensionContent(ext, psk) = Nothing
                ELSE ext.critical
    IN  IF rejected \/ P2pAt(cert) = {} THEN Nothing
        ELSE ExtensionContent(cert.extensions[CHOOSE i \in P2pAt(cert) : TRUE], psk)

Sha2 == {"sha256", "sha384", "sha512"}

\* The scheme that the algorithms of key and signature stand for.
signature_scheme(cert) ==
    LET pki == cert.spki
        sig == cert.sigalg
    IN  CASE pki.alg = "rsa" /\ sig.alg \in {"pkcs1", "pss"} /\ sig.hash \in Sha2 ->
                <<sig.alg, sig.hash>>
          [] pki.alg = "ec" /\ sig.alg = "ecdsa" /\
             <<pki.curve, sig.hash>> \in {<<"p256", "sha256">>, <<"p384", "sha384">>, <<"p521", "sha512">>} ->
                <<pki.curve, sig.hash>>
          [] pki.alg # "ec" /\ sig.alg \in {"ed25519", "ed448"} -> <<sig.alg, "none">>
          [] OTHER -> Nothing

\* What ring can verify.
RingSchemes ==
    ({"pkcs1", "pss"} \X Sha2) \cup {<<"p256", "sha256">>, <<"p384", "sha384">>, <<"ed25519", "none">>}

AnyScheme(cert, scheme) == scheme \in RingSchemes                      \* mutant
\* public_key: the scheme must be the certificate's own and one that ring knows.
public_key(cert, scheme) ==
    /\ scheme = signature_scheme(cert)
    /\ scheme \in RingSchemes

verify_signature(cert, scheme, signature) ==
    /\ public_key(cert, scheme)
    /\ signature = Signature(cert.spki.key, scheme)

\* P2pCertificate::verify, with the content of the extension.
verify(cert, content, clock) ==
    /\ cert.not_before <= clock /\ clock <= cert.not_after
    /\ verify_signature(cert, signature_scheme(cert), cert.signature)
    /\ content.signature = HostSignature(content.public_key, cert.spki.key)

\* parse, and then peer_id: the identity a certificate proves, or Nothing.
parse(cert, psk, clock) ==
    LET content == parse_unverified(cert, psk)
    IN  IF content # Nothing /\ verify(cert, content, clock) THEN content.public_key ELSE Nothing

\* Exactly one certificate must be presented.
verify_presented_certs(chain, psk, clock) ==
    IF Len(chain) = 1 THEN parse(chain[1], psk, clock) ELSE Nothing

\* The schemes the verifier offers.
verification_schemes ==
    {<<"p384", "sha384">>, <<"p256", "sha256">>, <<"ed25519", "none">>} \cup ({"pss", "pkcs1"} \X Sha2)

\* The peer's signature over the handshake, made with an offered scheme.
verify_tls13_signature(chain, scheme, signature, psk, clock) ==
    /\ scheme \in verification_schemes
    /\ parse(chain[1], psk, clock) # Nothing
    /\ verify_signature(chain[1], scheme, signature)

-------------------------------------------------------------------------------
(* The rules of the libp2p TLS specification that the comments of             *)
(* certificate.rs and verifier.rs quote, for a node with psk and clock.       *)

UsesStrongHash(cert) == cert.sigalg.alg \in {"ed25519", "ed448"} \/ cert.sigalg.hash \in Sha2
UsesNamedCurve(cert) == cert.spki.alg = "ec" => cert.spki.curve \in {"p256", "p384", "p521"}
DeclaredScheme(cert) ==
    CASE cert.sigalg.alg = "ecdsa" -> <<cert.spki.curve, cert.sigalg.hash>>
      [] cert.sigalg.alg \in {"ed25519", "ed448"} -> <<cert.sigalg.alg, "none">>
      [] OTHER -> <<cert.sigalg.alg, cert.sigalg.hash>>
IsSelfSigned(cert) == cert.signature = Signature(cert.spki.key, DeclaredScheme(cert))

HasHostKey(cert, psk) ==
    \E i \in DOMAIN cert.extensions :
        LET ext == cert.extensions[i]
        IN  /\ ext.oid = "p2p" /\ ext.decodes
            /\ ext.signature.by = ext.key /\ ext.signature.over = cert.spki.key
            /\ ext.signature.seal = IF psk = NoPsk THEN <<>> ELSE <<psk, ext.key>>
            /\ \A j \in DOMAIN cert.extensions \ {i} :
                    cert.extensions[j].oid # "p2p" /\ ~cert.extensions[j].critical

Conforms(chain, psk, clock) ==
    /\ Len(chain) = 1
    /\ chain[1].not_before <= clock /\ clock <= chain[1].not_after
    /\ UsesStrongHash(chain[1]) /\ UsesNamedCurve(chain[1])
    /\ IsSelfSigned(chain[1])
    /\ HasHostKey(chain[1], psk)

\* ring has neither P-521 nor Ed448, and one hash for each curve.  Ed25519 goes with a
\* key of any name but that of elliptic curves, and PKCS1 with a key that is named RSA,
\* also in a handshake, where TLS 1.3 has it no more (RFC 8446, 4.2.3).
Supported(cert) ==
    IF cert.spki.alg = "ec"
    THEN /\ cert.sigalg.alg = "ecdsa"
         /\ <<cert.spki.curve, cert.sigalg.hash>> \in {<<"p256", "sha256">>, <<"p384", "sha384">>}
    ELSE \/ cert.sigalg.alg = "ed25519"
         \/ cert.spki.alg = "rsa" /\ cert.sigalg.alg \in {"pkcs1", "pss"}
===============================================================================

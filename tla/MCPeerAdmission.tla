--------------------------- MODULE MCPeerAdmission ---------------------------
(* Two machines and another program. *)
EXTENDS PeerAdmission, TLC

CONSTANTS n1, n2, h1, h2, foreignHost, foreignKey, otherKey, p, q

MCMachineKey == (n1 :> h1) @@ (n2 :> h2)
MCMaxStarts == (n1 :> 1) @@ (n2 :> 2)

\* What the user may type, on one kind of machine or another.
Usual == [psk |-> p, key |-> Nothing, key_file |-> "none", aes |-> TRUE, clock |-> 2026,
          no_mdns |-> FALSE, listen |-> <<95>>, listen_arg |-> Nothing, connect |-> Nothing]
MCArguments ==
    { Usual,
      [Usual EXCEPT !.psk = NoPsk, !.aes = FALSE],
      [Usual EXCEPT !.psk = q],
      [Usual EXCEPT !.key = h1, !.key_file = "good"],
      [Usual EXCEPT !.clock = 1970, !.aes = FALSE, !.listen = [i \in 1 .. 23 |-> 95]],
      [Usual EXCEPT !.listen = [i \in 1 .. 30 |-> 83 + (i % 13)]],
      [Usual EXCEPT !.no_mdns = TRUE, !.connect = [addr |-> "ip:port", to |-> n1, peer |-> h1]],
      [Usual EXCEPT !.connect = [addr |-> "ip", to |-> n1, peer |-> h1], !.listen_arg = "ip"],
      [Usual EXCEPT !.connect = [addr |-> "ip:port", to |-> n1, peer |-> Nothing]],
      [Usual EXCEPT !.key_file = "bad"], [Usual EXCEPT !.listen_arg = "other"] }

-------------------------------------------------------------------------------
(* Other programs: all combinations of algorithms, and other deviations from  *)
(* an otherwise flawless certificate.                                         *)

Good(psk) == generate(foreignHost, foreignKey, psk)
Ext(psk) == make_libp2p_extension(foreignHost, foreignKey, psk)

Hashes == {"sha1", "sha256", "sha384", "sha512"}
SpkiKinds == ({"rsa", "ed25519", "ed448"} \X {"none"}) \cup ({"ec"} \X {"p256", "p384", "p521", "explicit", "none"})
SigKinds == ({"pkcs1", "pss", "ecdsa"} \X Hashes) \cup ({"ed25519", "ed448"} \X {"none"})

\* A signature of the key over its certificate with the declared algorithm: the key
\* may be of another kind than its name says.
SelfSigned(cert) == [cert EXCEPT !.signature = Signature(foreignKey, DeclaredScheme(cert))]
AlgCert(pki, sig) ==
    SelfSigned([Good(p) EXCEPT !.spki.alg = pki[1], !.spki.curve = pki[2],
                               !.sigalg = [alg |-> sig[1], hash |-> sig[2]]])

\* Signatures of certificates whose key is named RSA, with handshakes of all schemes.
HandshakeSigs == {<<"pkcs1", "sha256">>, <<"pss", "sha256">>, <<"ed25519", "none">>}

ExtKinds == 1 .. 15
ExtensionsOf(i) ==
    CASE i = 1 -> <<>>
      [] i = 2 -> <<Ext(p)>>
      [] i = 3 -> <<Ext(q)>>
      [] i = 4 -> <<Ext(NoPsk)>>
      [] i = 5 -> <<Ext(p), Ext(p)>>
      [] i = 6 -> <<Ext(p), Ext(q)>>
      [] i = 7 -> <<OtherExt(FALSE), Ext(p)>>
      [] i = 8 -> <<OtherExt(TRUE), Ext(p)>>
      [] i = 9 -> <<Ext(p), OtherExt(TRUE)>>
      [] i = 10 -> <<Ext(p), OtherExt(FALSE)>>
      [] i = 11 -> <<[Ext(p) EXCEPT !.decodes = FALSE]>>
      [] i = 12 -> <<[Ext(p) EXCEPT !.critical = FALSE]>>
      [] i = 13 -> <<[Ext(p) EXCEPT !.signature.by = h1]>>
      [] i = 14 -> <<[Ext(p) EXCEPT !.signature.over = otherKey]>>
      [] i = 15 -> <<make_libp2p_extension(h1, foreignKey, p)>>

AFlight(chain, scheme, alpn) ==
    [chain |-> chain, scheme |-> scheme, signature |-> Signature(foreignKey, scheme), alpn |-> alpn]
P256Flight(cert) == AFlight(<<cert>>, P2P_SIGNATURE_ALGORITHM, "ours")

MCForeignKinds ==
    ({"algorithms"} \X SpkiKinds \X SigKinds)
    \cup ({"handshake"} \X HandshakeSigs \X RingSchemes)
    \cup ({"extensions"} \X ExtKinds)
    \cup {<<"expired">>, <<"early">>, <<"signed by another key">>, <<"signed otherwise">>,
          <<"two">>, <<"no psk">>, <<"no alpn">>, <<"other alpn">>}
MCCommonKinds == {<<"extensions", 2>>, <<"no psk">>}
MCForeignFlight(k) ==
    CASE k[1] = "algorithms" ->
            LET cert == AlgCert(k[2], k[3]) IN AFlight(<<cert>>, DeclaredScheme(cert), "ours")
      [] k[1] = "handshake" -> AFlight(<<AlgCert(<<"rsa", "none">>, k[2])>>, k[3], "ours")
      [] k[1] = "extensions" -> P256Flight([Good(p) EXCEPT !.extensions = ExtensionsOf(k[2])])
      [] k[1] = "expired" -> P256Flight([Good(p) EXCEPT !.not_after = 2020])
      [] k[1] = "early" -> P256Flight([Good(p) EXCEPT !.not_before = 2030])
      [] k[1] = "signed by another key" -> P256Flight([Good(p) EXCEPT !.signature.key = otherKey])
      [] k[1] = "signed otherwise" -> P256Flight([Good(p) EXCEPT !.signature.scheme = <<"p384", "sha384">>])
      [] k[1] = "two" -> AFlight(<<Good(p), Good(p)>>, P2P_SIGNATURE_ALGORITHM, "ours")
      [] k[1] = "no psk" -> P256Flight(Good(NoPsk))
      [] k[1] = "no alpn" -> AFlight(<<Good(p)>>, P2P_SIGNATURE_ALGORITHM, "none")
      [] k[1] = "other alpn" -> AFlight(<<Good(p)>>, P2P_SIGNATURE_ALGORITHM, "other")
===============================================================================

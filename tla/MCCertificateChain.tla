------------------------- MODULE MCCertificateChain -------------------------
(* Bounded instance of CertificateChain. *)
EXTENDS CertificateChain, SequencesExt

CONSTANTS
    leaf, middle, top,      \* the certificates of a GPU
    root,                   \* the device root, presented or local
    rimRoot,                \* the root of the RIMs, here of top as well
    strangerRoot,           \* another authority
    garbled, fw1, fw2, none

MCCerts == {leaf, middle, top, root, rimRoot, strangerRoot}

(* Three certificates may pass for the issuer of leaf, so that a chain may *)
(* hold together but for its root, or for a certificate in its middle.     *)
MCSigns ==
    {<<root, root>>, <<rimRoot, rimRoot>>, <<strangerRoot, strangerRoot>>,
     <<root, top>>, <<rimRoot, top>>, <<top, middle>>, <<middle, leaf>>,
     <<top, leaf>>, <<strangerRoot, leaf>>}

MCFwid == [c \in MCCerts |-> IF c = leaf THEN fw1 ELSE none]

(* Every chain of at most MaxChainLength blocks, and some that are longer. *)
MCSources ==
    LET short == BoundedSeq(MCCerts \cup {garbled}, 4)
    IN  short \cup {Append(s, c) : s \in {<<leaf, middle, top, root>>,
                                        <<leaf, top, top, root>>},
                                  c \in {root, strangerRoot, garbled}}
=============================================================================

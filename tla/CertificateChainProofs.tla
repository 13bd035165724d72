------------------------ MODULE CertificateChainProofs ------------------------
(***************************************************************************)
(* What CertificateChain guarantees for every set of certificates, whoever *)
(* signed whom, for chains of any length and for any OCSP signers.         *)
(***************************************************************************)
EXTENDS CertificateChain, SequenceTheorems, TLAPS

-----------------------------------------------------------------------------
(* Lists of certificates. *)

LEMMA OneCertificate ==
    ASSUME NEW cert \in Certs
    PROVE  /\ <<cert>> \in Seq(Certs)
           /\ Len(<<cert>>) = 1
           /\ <<cert>>[1] = cert
<1>1. <<cert>> \in Seq(Certs)
  OBVIOUS
<1>2. Len(<<cert>>) = 1 /\ <<cert>>[1] = cert
  OBVIOUS
<1>3. QED
  BY <1>1, <1>2

LEMMA RootType == ASSUME TypeOK PROVE LocalRoot \in Certs
BY CertsAssumption DEF LocalRoot

(* A readable chain with its last certificate replaced. *)
LEMMA RootedType ==
    ASSUME TypeOK, ~Unreadable
    PROVE  /\ Rooted(source) \in Seq(Certs)
           /\ Len(Rooted(source)) \in Nat \ {0}
           /\ Rooted(source)[Len(Rooted(source))] = LocalRoot
           /\ source # <<>> => Len(Rooted(source)) = Len(source)
           /\ \A k \in 1 .. Len(Rooted(source)) - 1 : Rooted(source)[k] = source[k]
<1>1. LocalRoot \in Certs
  BY RootType
<1>2. source \in Seq(Blocks)
  BY SourcesAssumption DEF TypeOK
<1>3. CASE source = <<>>
  <2>1. Rooted(source) = <<LocalRoot>>
    BY <1>3 DEF Rooted
  <2>2. /\ Rooted(source) \in Seq(Certs)
        /\ Len(Rooted(source)) = 1
        /\ Rooted(source)[1] = LocalRoot
    BY <1>1, <2>1, OneCertificate
  <2>3. 1 .. Len(Rooted(source)) - 1 = {}
    BY <2>2
  <2>4. QED
    BY <1>3, <2>2, <2>3
<1>4. CASE source # <<>>
  <2> DEFINE R == [source EXCEPT ![Len(source)] = LocalRoot]
  <2>1. Rooted(source) = R
    BY <1>4 DEF Rooted
  <2>2. Len(source) \in Nat \ {0}
    BY <1>2, <1>4, EmptySeq
  <2>3. /\ R \in Seq(Blocks)
        /\ Len(R) = Len(source)
        /\ \A k \in 1 .. Len(source) :
              R[k] = IF k = Len(source) THEN LocalRoot ELSE source[k]
    <3>1. LocalRoot \in Blocks /\ Len(source) \in 1 .. Len(source)
      BY <1>1, <2>2 DEF Blocks
    <3>2. QED
      BY <1>2, <3>1, ExceptSeq
  <2>4. ASSUME NEW k \in 1 .. Len(source) PROVE R[k] \in Certs
    <3>1. CASE k = Len(source)
      BY <1>1, <2>3, <3>1
    <3>2. CASE k # Len(source)
      <4>1. k \in 1 .. Len(source) - 1 /\ DOMAIN source = 1 .. Len(source)
        BY <1>2, <2>2, <3>2
      <4>2. source[k] # Garbled
        BY <4>1 DEF Unreadable
      <4>3. source[k] \in Blocks
        BY <1>2, ElementOfSeq
      <4>4. QED
        BY <2>3, <3>2, <4>2, <4>3 DEF Blocks
    <3>3. QED
      BY <3>1, <3>2
  <2>5. R \in Seq(Certs)
    <3>1. Len(R) \in Nat /\ R \in [1 .. Len(R) -> Blocks]
      BY <2>3, LenProperties
    <3>2. R \in [1 .. Len(R) -> Certs]
      BY <2>3, <2>4, <3>1
    <3> HIDE DEF R
    <3>3. R \in UNION {[1 .. n -> Certs] : n \in Nat}
      BY <3>1, <3>2
    <3>4. QED
      BY <3>3, SeqDef
  <2> HIDE DEF R
  <2>6. R[Len(R)] = LocalRoot
    BY <2>2, <2>3
  <2>7. \A k \in 1 .. Len(R) - 1 : R[k] = source[k]
    BY <2>2, <2>3
  <2>8. QED
    BY <2>1, <2>2, <2>3, <2>5, <2>6, <2>7
<1>5. QED
  BY <1>3, <1>4

(* What an OCSP signer is verified with. *)
LEMMA SignerChainType ==
    ASSUME TypeOK, NEW cert \in Certs, NEW i \in 1 .. Len(chain)
    PROVE  /\ SignerChain(cert, i) \in Seq(Certs)
           /\ Len(SignerChain(cert, i)) = Len(chain) - i + 2
           /\ SignerChain(cert, i)[1] = cert
           /\ \A k \in 2 .. Len(chain) - i + 2 :
                 SignerChain(cert, i)[k] = chain[i + k - 2]
<1> DEFINE One  == <<cert>>
           Rest == SubSeq(chain, i, Len(chain))
<1>1. chain \in Seq(Certs) /\ Len(chain) \in Nat
  BY DEF TypeOK
<1>2. /\ Rest \in Seq(Certs)
      /\ Len(Rest) = Len(chain) - i + 1
      /\ \A k \in 1 .. Len(chain) - i + 1 : Rest[k] = chain[i + k - 1]
  <2>1. \A k \in i .. Len(chain) : chain[k] \in Certs
    BY <1>1, ElementOfSeq
  <2>2. i \in Int /\ Len(chain) \in Int /\ i <= Len(chain)
    BY <1>1
  <2>3. QED
    BY <2>1, <2>2, SubSeqProperties
<1>3. One \in Seq(Certs) /\ Len(One) = 1 /\ One[1] = cert
  BY OneCertificate
<1>5. SignerChain(cert, i) = One \o Rest
  BY DEF SignerChain
<1> HIDE DEF One, Rest
<1>4. /\ (One \o Rest) \in Seq(Certs)
      /\ Len(One \o Rest) = 1 + Len(Rest)
      /\ \A k \in 1 .. 1 + Len(Rest) :
            (One \o Rest)[k] = IF k <= 1 THEN One[k] ELSE Rest[k - 1]
  <2>1. One \in Seq(Certs) /\ Rest \in Seq(Certs)
    BY <1>2, <1>3
  <2>2. /\ (One \o Rest) \in Seq(Certs)
        /\ Len(One \o Rest) = Len(One) + Len(Rest)
        /\ \A k \in 1 .. Len(One) + Len(Rest) :
              (One \o Rest)[k] = IF k <= Len(One) THEN One[k] ELSE Rest[k - Len(One)]
    BY ONLY <2>1, ConcatProperties
  <2>3. QED
    BY <1>3, <2>2
<1>6. ASSUME NEW k \in 2 .. Len(chain) - i + 2
      PROVE  SignerChain(cert, i)[k] = chain[i + k - 2]
  <2>1. k - 1 \in 1 .. Len(chain) - i + 1 /\ k \in 1 .. 1 + Len(Rest) /\ ~(k <= 1)
    BY <1>1, <1>2
  <2>2. SignerChain(cert, i)[k] = Rest[k - 1]
    BY <1>4, <1>5, <2>1
  <2>3. Rest[k - 1] = chain[i + (k - 1) - 1]
    BY <1>2, <2>1
  <2>4. QED
    BY <1>1, <2>2, <2>3
<1>7. Len(SignerChain(cert, i)) = Len(chain) - i + 2
  BY <1>1, <1>2, <1>4, <1>5
<1>8. SignerChain(cert, i)[1] = cert
  <2>1. 1 \in 1 .. 1 + Len(Rest)
    BY <1>1, <1>2
  <2>2. QED
    BY <1>3, <1>4, <1>5, <2>1
<1>9. QED
  BY <1>4, <1>5, <1>6, <1>7, <1>8

(* A new call of verify_certificate_chain: the store holds the root alone. *)
LEMMA CallType ==
    ASSUME NEW list \in Seq(Certs), Len(list) > 0, list[Len(list)] = LocalRoot,
           VerifyCertificateChain(list), mode' = mode
    PROVE  /\ checked' \in Seq(Certs) /\ store' \subseteq Certs
           /\ index' \in Nat /\ index' < Len(checked')
           /\ checked'[Len(checked')] = LocalRoot'
           /\ StoreInv'
<1>1. Len(list) \in Nat \ {0}
  OBVIOUS
<1>2. /\ checked' = list /\ store' = {list[Len(list)]}
      /\ index' = Len(list) - 1 /\ pc' = "verify"
  BY DEF VerifyCertificateChain
<1>3. list[Len(list)] \in Certs
  BY <1>1, ElementOfSeq
<1>4. LocalRoot' = LocalRoot
  BY DEF LocalRoot
<1>5. StoreInv'
  <2>1. index' + 1 .. Len(checked') = {Len(list)}
    BY <1>1, <1>2
  <2>2. store' = {checked'[k] : k \in index' + 1 .. Len(checked')}
    BY <1>2, <2>1
  <2>3. index' + 1 .. Len(checked') - 1 = {}
    BY <1>1, <1>2
  <2>4. QED
    BY <2>2, <2>3 DEF StoreInv
<1>6. QED
  BY <1>1, <1>2, <1>3, <1>4, <1>5
-----------------------------------------------------------------------------
(* The invariant. *)

LEMMA InitIInv == Init => IInv
<1> SUFFICES ASSUME Init PROVE IInv
  OBVIOUS
<1>1. TypeOK
  <2>1. <<>> \in Seq(Certs)
    BY EmptySeq
  <2>2. QED
    BY <2>1 DEF Init, TypeOK
<1>2. ChainInv /\ FwidInv /\ LengthInv /\ StoreInv /\ CheckedInv /\ AnchoredInv
  BY DEF Init, ChainInv, FwidInv, LengthInv, StoreInv, CheckedInv, AnchoredInv,
         Accepted
<1>3. SignersInv /\ DoneInv
  BY DEF Init, SignersInv, DoneInv, Accepted
<1>4. QED
  BY <1>1, <1>2, <1>3 DEF IInv

(* What depends on the input alone stays as it is. *)
LEMMA SameInput ==
    ASSUME UNCHANGED input
    PROVE  /\ LocalRoot' = LocalRoot /\ StartIndex' = StartIndex
           /\ Unreadable' = Unreadable /\ Rooted(source)' = Rooted(source)
<1>1. LocalRoot' = LocalRoot /\ StartIndex' = StartIndex /\ Unreadable' = Unreadable
  BY DEF input, LocalRoot, StartIndex, Unreadable
<1>2. QED
  BY <1>1 DEF input, Rooted

(* The thread ends without accepting. *)
LEMMA Rejecting ==
    ASSUME IInv, pc # "done", Return(result'),
           result' \in {"FALSE", "CertExtractionError",
                       "InvalidCertificateError", "OCSPFetchError",
                       "IncorrectNumberOfCertificatesError"},
           UNCHANGED <<input, chain, checked, store, index, signers>>
    PROVE  IInv'
<1> USE SameInput DEF IInv
<1>1. pc' = "done" /\ ~Accepted' /\ result' # "none"
  BY DEF Return, Accepted
<1>2. TypeOK'
  BY <1>1 DEF TypeOK, input
<1>3. /\ ChainInv' /\ FwidInv' /\ LengthInv' /\ StoreInv' /\ CheckedInv'
      /\ AnchoredInv'
  BY <1>1 DEF ChainInv, FwidInv, LengthInv, StoreInv, CheckedInv, AnchoredInv
<1>4. SignersInv'
  BY <1>1 DEF SignersInv, Asked
<1>5. DoneInv'
  BY <1>1 DEF DoneInv
<1>6. QED
  BY <1>2, <1>3, <1>4, <1>5

LEMMA ExtractInv == IInv /\ Extract => IInv'
<1> SUFFICES ASSUME IInv, Extract PROVE IInv'
  OBVIOUS
<1> USE SameInput
<1>1. CASE Unreadable
  <2>1. /\ Return(result')
        /\ result' \in {"CertExtractionError", "InvalidCertificateError"}
    BY <1>1 DEF Extract, Return
  <2>2. pc # "done" /\ UNCHANGED <<input, chain, checked, store, index, signers>>
    BY <1>1 DEF Extract
  <2>3. QED
    BY <2>1, <2>2, Rejecting
<1>2. CASE ~Unreadable
  <2> USE DEF IInv
  <2>1. /\ pc = "extract" /\ pc' = "fwid" /\ result' = result
        /\ chain' = Rooted(source)
        /\ UNCHANGED <<input, checked, store, index, signers>>
    BY <1>2 DEF Extract
  <2>2. result' = "none" /\ signers' = <<>> /\ ~Accepted'
    BY <2>1 DEF DoneInv, SignersInv, Accepted
  <2>3. TypeOK'
    BY <1>2, <2>1, RootedType DEF TypeOK, input
  <2>4. ChainInv'
    BY <1>2, <2>1 DEF ChainInv
  <2>5. FwidInv' /\ LengthInv' /\ StoreInv' /\ CheckedInv' /\ AnchoredInv'
    BY <2>1, <2>2 DEF FwidInv, LengthInv, StoreInv, CheckedInv, AnchoredInv
  <2>6. SignersInv' /\ DoneInv'
    BY <2>1, <2>2 DEF SignersInv, DoneInv
  <2>7. QED
    BY <2>3, <2>4, <2>5, <2>6
<1>3. QED
  BY <1>1, <1>2

LEMMA CheckFwidInv == IInv /\ CheckFwid => IInv'
<1> SUFFICES ASSUME IInv, CheckFwid PROVE IInv'
  OBVIOUS
<1> USE SameInput
<1> DEFINE Differs ==
      mode = "GPU_ATTESTATION" /\ reportFwid \notin {NoFwid, Fwid[chain[1]]}
<1>1. CASE Differs
  <2>1. /\ Return(result') /\ result' = "FALSE" /\ pc # "done"
        /\ UNCHANGED <<input, chain, checked, store, index, signers>>
    BY <1>1 DEF CheckFwid, Return
  <2>2. QED
    BY <2>1, Rejecting
<1>2. CASE ~Differs
  <2> USE DEF IInv
  <2>1. /\ pc = "fwid" /\ pc' = "count" /\ result' = result
        /\ UNCHANGED <<input, chain, checked, store, index, signers>>
    BY <1>2 DEF CheckFwid
  <2>2. result' = "none" /\ signers' = <<>> /\ ~Accepted'
    BY <2>1 DEF DoneInv, SignersInv, Accepted
  <2>3. TypeOK'
    BY <2>1 DEF TypeOK, input
  <2>4. ChainInv' /\ FwidInv'
    BY <1>2, <2>1 DEF ChainInv, FwidInv, input
  <2>5. LengthInv' /\ StoreInv' /\ CheckedInv' /\ AnchoredInv'
    BY <2>1, <2>2 DEF LengthInv, StoreInv, CheckedInv, AnchoredInv
  <2>6. SignersInv' /\ DoneInv'
    BY <2>1, <2>2 DEF SignersInv, DoneInv
  <2>7. QED
    BY <2>3, <2>4, <2>5, <2>6
<1>3. QED
  BY <1>1, <1>2

LEMMA CountInv == IInv /\ Count => IInv'
<1> SUFFICES ASSUME IInv, Count PROVE IInv'
  OBVIOUS
<1> USE SameInput
<1> DEFINE Odd == mode = "GPU_ATTESTATION" /\ Len(chain) # MaxChainLength
<1>1. CASE Odd
  <2>1. /\ Return(result') /\ result' = "IncorrectNumberOfCertificatesError"
        /\ pc # "done"
        /\ UNCHANGED <<input, chain, checked, store, index, signers>>
    BY <1>1 DEF Count, Return
  <2>2. QED
    BY <2>1, Rejecting
<1>2. CASE ~Odd
  <2> USE DEF IInv
  <2>1. /\ pc = "count" /\ VerifyCertificateChain(chain) /\ result' = result
        /\ UNCHANGED <<input, chain, signers>>
    BY <1>2 DEF Count
  <2>2. pc' = "verify" /\ checked' = chain
    BY <2>1 DEF VerifyCertificateChain
  <2>3. result' = "none" /\ signers' = <<>> /\ ~Accepted'
    BY <2>1 DEF DoneInv, SignersInv, Accepted
  <2>4. chain \in Seq(Certs) /\ Len(chain) > 0 /\ chain[Len(chain)] = LocalRoot
    BY <2>1, RootedType DEF ChainInv
  <2>5. /\ checked' \in Seq(Certs) /\ store' \subseteq Certs
        /\ index' \in Nat /\ index' < Len(checked')
        /\ checked'[Len(checked')] = LocalRoot'
        /\ StoreInv'
    BY <2>1, <2>4, CallType DEF input
  <2>6. TypeOK'
    BY <2>1, <2>2, <2>3, <2>5 DEF TypeOK, input
  <2>7. ChainInv' /\ FwidInv' /\ LengthInv'
    BY <1>2, <2>1, <2>2 DEF ChainInv, FwidInv, LengthInv, input
  <2>8. CheckedInv' /\ AnchoredInv'
    BY <2>1, <2>2, <2>3 DEF CheckedInv, AnchoredInv
  <2>9. SignersInv' /\ DoneInv'
    BY <2>2, <2>3 DEF SignersInv, DoneInv
  <2>10. QED
    BY <2>5, <2>6, <2>7, <2>8, <2>9
<1>3. QED
  BY <1>1, <1>2

LEMMA VerifyNextInv == IInv /\ VerifyNext => IInv'
<1> SUFFICES ASSUME IInv, VerifyNext PROVE IInv'
  OBVIOUS
<1> USE SameInput
<1>1. CASE ~Trusted(checked[index])
  <2>1. /\ Return(result') /\ result' = "FALSE" /\ pc # "done"
        /\ UNCHANGED <<input, chain, checked, store, index, signers>>
    BY <1>1 DEF VerifyNext, Return
  <2>2. QED
    BY <2>1, Rejecting
<1>2. CASE Trusted(checked[index])
  <2> USE DEF IInv
  <2>1. /\ pc = "verify" /\ index > 0 /\ index' = index - 1
        /\ store' = store \cup {checked[index]}
        /\ UNCHANGED <<input, pc, chain, checked, signers, result>>
    BY <1>2 DEF VerifyNext
  <2>2. /\ index \in Nat /\ checked \in Seq(Certs) /\ Len(checked) \in Nat
        /\ index < Len(checked)
    BY <2>1 DEF TypeOK
  <2>3. index' \in Nat /\ index' < Len(checked') /\ index' + 1 = index
    BY <2>1, <2>2
  <2>4. TypeOK'
    <3>1. checked[index] \in Certs
      BY <2>1, <2>2, ElementOfSeq
    <3>2. QED
      BY <2>1, <2>3, <3>1 DEF TypeOK, input
  <2>5. SignedBehind(checked, index)
    <3>1. PICK s \in store : <<s, checked[index]>> \in Signs
      BY <1>2 DEF Trusted
    <3>2. PICK j \in index + 1 .. Len(checked) : s = checked[j]
      BY <2>1, <3>1 DEF StoreInv
    <3>3. QED
      BY <3>1, <3>2 DEF SignedBehind
  <2>6. StoreInv'
    <3>1. index .. Len(checked) = {index} \cup index + 1 .. Len(checked)
      BY <2>2
    <3>2. store' = {checked[k] : k \in index .. Len(checked)}
      BY <2>1, <3>1 DEF StoreInv
    <3>3. \A k \in index .. Len(checked) - 1 : SignedBehind(checked, k)
      <4>1. ASSUME NEW k \in index .. Len(checked) - 1, k # index
            PROVE  SignedBehind(checked, k)
        <5>1. k \in index + 1 .. Len(checked) - 1
          BY <2>2, <4>1
        <5>2. QED
          BY <2>1, <5>1 DEF StoreInv
      <4>2. QED
        BY <2>5, <4>1
    <3>4. QED
      BY <2>1, <2>3, <3>2, <3>3 DEF StoreInv, SignedBehind
  <2>7. ChainInv' /\ FwidInv' /\ LengthInv'
    BY <2>1 DEF ChainInv, FwidInv, LengthInv, Accepted, input
  <2>8. CheckedInv' /\ AnchoredInv'
    BY <2>1 DEF CheckedInv, AnchoredInv, Accepted, SignerChain, Asked, SignedBehind
  <2>9. SignersInv' /\ DoneInv'
    BY <2>1 DEF SignersInv, DoneInv, Accepted, Asked
  <2>10. QED
    BY <2>4, <2>6, <2>7, <2>8, <2>9
<1>3. QED
  BY <1>1, <1>2

(* A call that ends well: the chain, or the signer judged, hangs together. *)
LEMMA VerifiedInv == IInv /\ Verified => IInv'
<1> SUFFICES ASSUME IInv, Verified PROVE IInv'
  OBVIOUS
<1> USE SameInput DEF IInv
<1>1. /\ pc = "verify" /\ index = 0 /\ pc' = "revocation"
      /\ UNCHANGED <<input, chain, checked, store, index, signers, result>>
  BY DEF Verified
<1>2. result = "none" /\ ~Accepted /\ ~Accepted'
  BY <1>1 DEF DoneInv, Accepted
<1>3. \A k \in 1 .. Len(checked) - 1 : SignedBehind(checked, k)
  BY <1>1 DEF StoreInv
<1>4. TypeOK'
  BY <1>1 DEF TypeOK, input
<1>5. ChainInv' /\ FwidInv' /\ LengthInv' /\ StoreInv' /\ CheckedInv' /\ DoneInv'
  BY <1>1, <1>2 DEF ChainInv, FwidInv, LengthInv, StoreInv, CheckedInv, DoneInv, input
<1>6. AnchoredInv'
  <2>1. CASE signers = <<>>
    <3>1. checked = chain
      BY <1>1, <2>1 DEF CheckedInv
    <3>2. QED
      BY <1>1, <1>3, <3>1 DEF AnchoredInv, SignedBehind
  <2>2. CASE signers # <<>>
    BY <1>1, <2>2 DEF AnchoredInv, SignedBehind
  <2>3. QED
    BY <2>1, <2>2
<1>7. SignersInv'
  <2>1. ASSUME NEW n \in 1 .. Len(signers)
        PROVE  \E j \in StartIndex + n - 1 .. Len(chain) :
                  <<chain[j], signers[n]>> \in Signs
    <3>1. CASE n # Len(signers)
      BY <1>1, <3>1 DEF SignersInv
    <3>2. CASE n = Len(signers)
      <4>1. signers \in Seq(Certs) /\ chain \in Seq(Certs)
        BY DEF TypeOK
      <4>2. Len(signers) \in Nat /\ signers # <<>> /\ signers[n] \in Certs
        BY <4>1, <3>2, ElementOfSeq
      <4> DEFINE i == Asked - 1
      <4>3. i = StartIndex + n - 1 /\ StartIndex \in 1 .. 2
        BY <3>2, <4>2 DEF Asked, StartIndex
      <4>4. i \in 1 .. Len(chain)
        <5>1. Asked <= Len(chain)
          BY <4>2 DEF SignersInv
        <5>2. n \in Nat /\ n >= 1 /\ Len(chain) \in Nat
          BY <4>1
        <5>3. Asked = StartIndex + n
          BY <3>2 DEF Asked
        <5>4. QED
          BY <4>3, <5>1, <5>2, <5>3
      <4>5. checked = SignerChain(signers[n], i)
        BY <1>1, <3>2, <4>2 DEF CheckedInv
      <4> HIDE DEF i
      <4>6. /\ Len(checked) = Len(chain) - i + 2
            /\ checked[1] = signers[n]
            /\ \A k \in 2 .. Len(chain) - i + 2 : checked[k] = chain[i + k - 2]
        BY <4>2, <4>4, <4>5, SignerChainType
      <4>7. SignedBehind(checked, 1)
        <5>1. 1 \in 1 .. Len(checked) - 1
          BY <4>1, <4>4, <4>6
        <5>2. QED
          BY <1>3, <5>1
      <4>8. PICK j \in 2 .. Len(checked) : <<checked[j], checked[1]>> \in Signs
        BY <4>7 DEF SignedBehind
      <4>9. i + j - 2 \in i .. Len(chain)
        BY <4>1, <4>4, <4>6, <4>8
      <4>10. <<chain[i + j - 2], signers[n]>> \in Signs
        BY <4>6, <4>8
      <4>11. QED
        BY <4>3, <4>9, <4>10
    <3>3. QED
      BY <3>1, <3>2
  <2>2. signers # <<>> => Asked' <= Len(chain')
    BY <1>1 DEF SignersInv, Asked
  <2>3. QED
    BY <1>1, <2>1, <2>2 DEF SignersInv
<1>8. QED
  BY <1>4, <1>5, <1>6, <1>7

LEMMA JudgeSignerInv == IInv /\ JudgeSigner => IInv'
<1> SUFFICES ASSUME IInv, JudgeSigner PROVE IInv'
  OBVIOUS
<1> USE SameInput DEF IInv
<1>1. PICK cert \in Certs :
         /\ VerifyCertificateChain(SignerChain(cert, Asked))
         /\ signers' = Append(signers, cert)
  BY DEF JudgeSigner
<1>2. /\ pc = "revocation" /\ Asked < Len(chain)
      /\ UNCHANGED <<input, chain, result>>
  BY DEF JudgeSigner
<1>3. signers \in Seq(Certs) /\ chain \in Seq(Certs)
  BY DEF TypeOK
<1>4. /\ signers' \in Seq(Certs) /\ signers' # <<>>
      /\ Len(signers') = Len(signers) + 1 /\ Len(signers) \in Nat
      /\ signers'[Len(signers')] = cert
      /\ \A n \in 1 .. Len(signers) : signers'[n] = signers[n]
  BY <1>1, <1>3
<1>5. Asked' = Asked + 1 /\ StartIndex \in 1 .. 2
  BY <1>2, <1>4 DEF Asked, StartIndex
<1>6. Asked \in 1 .. Len(chain)
  BY <1>2, <1>3, <1>4, <1>5 DEF Asked
<1> DEFINE list == SignerChain(cert, Asked)
<1>7. /\ list \in Seq(Certs) /\ Len(list) > 0
      /\ list[Len(list)] = chain[Len(chain)]
  <2>1. /\ list \in Seq(Certs)
        /\ Len(list) = Len(chain) - Asked + 2
        /\ \A k \in 2 .. Len(chain) - Asked + 2 : list[k] = chain[Asked + k - 2]
    BY <1>6, SignerChainType
  <2> HIDE DEF list
  <2>2. Len(list) \in 2 .. Len(chain) - Asked + 2
    BY <1>3, <1>6, <2>1
  <2>3. list[Len(list)] = chain[Asked + Len(list) - 2]
    BY <2>1, <2>2
  <2>4. Asked + Len(list) - 2 = Len(chain)
    BY <1>3, <1>6, <2>1
  <2>5. QED
    BY <2>1, <2>2, <2>3, <2>4
<1>8. chain[Len(chain)] = LocalRoot
  BY <1>2, RootedType DEF ChainInv
<1>9. pc' = "verify" /\ checked' = list
  BY <1>1 DEF VerifyCertificateChain
<1>10. result' = "none" /\ ~Accepted'
  BY <1>2 DEF DoneInv, Accepted
<1>11. /\ checked' \in Seq(Certs) /\ store' \subseteq Certs
       /\ index' \in Nat /\ index' < Len(checked')
       /\ checked'[Len(checked')] = LocalRoot'
       /\ StoreInv'
  <2> HIDE DEF list
  <2>1. VerifyCertificateChain(list)
    BY <1>1 DEF list
  <2>2. QED
    BY <1>2, <1>7, <1>8, <2>1, CallType DEF input
<1>12. TypeOK'
  BY <1>2, <1>4, <1>9, <1>10, <1>11 DEF TypeOK, input
<1>13. ChainInv' /\ FwidInv' /\ LengthInv'
  BY <1>2, <1>9 DEF ChainInv, FwidInv, LengthInv, input
<1>14. CheckedInv'
  <2>1. Asked' - 1 = Asked
    BY <1>5, <1>6
  <2>2. SignerChain(signers[Len(signers)], Asked - 1)' = SignerChain(cert, Asked)
    BY <1>2, <1>4, <2>1 DEF SignerChain
  <2>3. QED
    BY <1>4, <1>9, <2>2 DEF CheckedInv
<1>15. AnchoredInv'
  BY <1>2 DEF AnchoredInv, SignedBehind
<1>16. SignersInv'
  <2>1. Asked' <= Len(chain')
    BY <1>2, <1>3, <1>5, <1>6
  <2>2. ASSUME NEW n \in 1 .. Len(signers'), n # Len(signers')
        PROVE  \E j \in StartIndex + n - 1 .. Len(chain) :
                  <<chain[j], signers'[n]>> \in Signs
    <3>1. n \in 1 .. Len(signers)
      BY <1>4, <2>2
    <3>2. \E j \in StartIndex + n - 1 .. Len(chain) :
             <<chain[j], signers[n]>> \in Signs
      BY <1>2, <3>1 DEF SignersInv
    <3>3. QED
      BY <1>4, <3>1, <3>2
  <2>3. QED
    BY <1>2, <1>9, <2>1, <2>2 DEF SignersInv
<1>17. DoneInv'
  BY <1>9, <1>10 DEF DoneInv
<1>18. QED
  BY <1>11, <1>12, <1>13, <1>14, <1>15, <1>16, <1>17

LEMMA RejectOtherwiseInv == IInv /\ RejectOtherwise => IInv'
<1> SUFFICES ASSUME IInv, RejectOtherwise PROVE IInv'
  OBVIOUS
<1>1. /\ Return(result') /\ result' \in {"FALSE", "OCSPFetchError"}
      /\ pc # "done"
      /\ UNCHANGED <<input, chain, checked, store, index, signers>>
  BY DEF RejectOtherwise, Return
<1>2. QED
  BY <1>1, Rejecting

LEMMA ConcludeInv == IInv /\ Conclude => IInv'
<1> SUFFICES ASSUME IInv, Conclude PROVE IInv'
  OBVIOUS
<1> USE SameInput DEF IInv
<1>1. /\ pc = "revocation" /\ Asked >= Len(chain)
      /\ pc' = "done" /\ result' = "TRUE"
      /\ UNCHANGED <<input, chain, checked, store, index, signers>>
  BY DEF Conclude, Return
<1>2. TypeOK'
  BY <1>1 DEF TypeOK, input
<1>3. ChainInv' /\ FwidInv' /\ LengthInv'
  BY <1>1 DEF ChainInv, FwidInv, LengthInv, input
<1>4. StoreInv' /\ CheckedInv' /\ AnchoredInv'
  BY <1>1 DEF StoreInv, CheckedInv, AnchoredInv, SignedBehind
<1>5. SignersInv' /\ DoneInv'
  BY <1>1 DEF SignersInv, DoneInv, Accepted, Asked
<1>6. QED
  BY <1>2, <1>3, <1>4, <1>5

LEMMA NextIInv == IInv /\ [Next]_vars => IInv'
<1> SUFFICES ASSUME IInv, [Next]_vars PROVE IInv'
  OBVIOUS
<1>1. CASE UNCHANGED vars
  <2>1. UNCHANGED <<input, pc, chain, checked, store, index, signers, result>>
    BY <1>1 DEF vars, input
  <2> USE SameInput DEF IInv
  <2>2. TypeOK'
    BY <2>1 DEF TypeOK, input
  <2>3. ChainInv' /\ FwidInv' /\ LengthInv'
    BY <2>1 DEF ChainInv, FwidInv, LengthInv, Accepted, input
  <2>4. StoreInv' /\ CheckedInv' /\ AnchoredInv'
    BY <2>1 DEF StoreInv, CheckedInv, AnchoredInv, Accepted, Asked, SignerChain,
                SignedBehind
  <2>5. SignersInv' /\ DoneInv'
    BY <2>1 DEF SignersInv, DoneInv, Accepted, Asked
  <2>6. QED
    BY <2>2, <2>3, <2>4, <2>5
<1>2. CASE Terminated
  BY <1>1, <1>2 DEF Terminated
<1>3. QED
  BY <1>1, <1>2, ExtractInv, CheckFwidInv, CountInv, VerifyNextInv, VerifiedInv,
     JudgeSignerInv, RejectOtherwiseInv, ConcludeInv DEF Next

LEMMA SpecIInv == Spec => []IInv
BY InitIInv, NextIInv, PTL DEF Spec
-----------------------------------------------------------------------------
(* The theorems. *)

(* The state keeps its types; whatever list verify_certificate_chain is    *)
(* called for ends in a root of the verifier's own.                        *)
THEOREM TypeCorrect == Spec => []TypeOK
<1>1. IInv => TypeOK
  BY DEF IInv
<1>2. QED
  BY <1>1, SpecIInv, PTL

(* An accepted chain hangs together down to the verifier's own root, and   *)
(* so do the signers of the OCSP responses it was accepted with.           *)
THEOREM Anchored == Spec => []AcceptedIsAnchored
<1>1. IInv => AcceptedIsAnchored
  <2> SUFFICES ASSUME IInv, result = "TRUE" PROVE AcceptedIsAnchored
    BY DEF AcceptedIsAnchored
  <2> USE DEF IInv, Accepted
  <2>1. chain[Len(chain)] = LocalRoot
    BY RootedType DEF ChainInv
  <2>2. \A k \in 1 .. Len(chain) - 1 : SignedBehind(chain, k)
    BY DEF AnchoredInv
  <2>3. mode = "GPU_ATTESTATION" =>
          Len(chain) = MaxChainLength /\ reportFwid \in {NoFwid, Fwid[chain[1]]}
    BY DEF FwidInv, LengthInv
  <2>4. ASSUME NEW k \in StartIndex .. Len(chain) - 1
        PROVE  \E j \in k .. Len(chain) :
                  <<chain[j], signers[k - StartIndex + 1]>> \in Signs
    <3>1. /\ Len(signers) \in Nat /\ Len(chain) \in Nat
          /\ StartIndex \in 1 .. 2 /\ Asked >= Len(chain)
      BY DEF TypeOK, StartIndex, DoneInv
    <3> DEFINE n == k - StartIndex + 1
    <3>2. n \in 1 .. Len(signers) /\ StartIndex + n - 1 = k
      BY <3>1 DEF Asked
    <3>3. pc # "verify"
      BY DEF DoneInv
    <3>4. \E j \in StartIndex + n - 1 .. Len(chain) :
             <<chain[j], signers[n]>> \in Signs
      BY <3>2, <3>3 DEF SignersInv
    <3>5. QED
      BY <3>2, <3>4
  <2>5. QED
    BY <2>1, <2>2, <2>3, <2>4 DEF AcceptedIsAnchored
<1>2. QED
  BY <1>1, SpecIInv, PTL

(* A step of the verification does not turn down a chain that is as it is  *)
(* meant to be.                                                            *)
LEMMA WellMadeGoesOn ==
    ASSUME IInv, [Next]_vars, WellMade, pc # "revocation", signers = <<>>,
           ~(UNCHANGED vars)
    PROVE  pc' # "done"
<1> USE DEF IInv
<1>1. CASE Extract
  <2>1. ~Unreadable
    <3>1. source \in Seq(Blocks)
      BY SourcesAssumption DEF TypeOK
    <3>2. DOMAIN source = 1 .. Len(source) /\ Len(source) \in Nat
      BY <3>1
    <3>3. /\ source # <<>>
          /\ \A k \in 1 .. Len(source) - 1 : source[k] # Garbled
          /\ mode = "GPU_ATTESTATION" => source[Len(source)] # Garbled
      BY DEF WellMade
    <3>4. CASE mode = "GPU_ATTESTATION"
      <4>1. \A k \in 1 .. Len(source) : source[k] # Garbled
        BY <3>2, <3>3, <3>4
      <4>2. QED
        BY <3>2, <3>4, <4>1 DEF Unreadable
    <3>5. CASE mode # "GPU_ATTESTATION"
      BY <3>3, <3>5 DEF Unreadable
    <3>6. QED
      BY <3>4, <3>5
  <2>2. QED
    BY <1>1, <2>1 DEF Extract
<1>2. CASE CheckFwid
  <2>1. chain = Rooted(source)
    BY <1>2 DEF CheckFwid, ChainInv
  <2>2. QED
    BY <1>2, <2>1 DEF CheckFwid, WellMade
<1>3. CASE Count
  <2>1. Len(chain) = Len(source)
    BY <1>3, RootedType DEF Count, ChainInv, WellMade
  <2>2. QED
    BY <1>3, <2>1 DEF Count, WellMade, VerifyCertificateChain
<1>4. CASE VerifyNext
  <2>1. pc = "verify" /\ index > 0 /\ checked = chain
    BY <1>4 DEF VerifyNext, CheckedInv
  <2>2. /\ index \in Nat /\ Len(chain) \in Nat /\ index < Len(chain)
        /\ chain[Len(chain)] = LocalRoot
    BY <2>1 DEF TypeOK
  <2>3. /\ Len(chain) = Len(source)
        /\ \A k \in 1 .. Len(chain) - 1 : chain[k] = source[k]
    BY <2>1, RootedType DEF ChainInv, WellMade
  <2>4. index \in 1 .. Len(chain) - 1
    BY <2>1, <2>2
  <2>5. <<chain[index + 1], chain[index]>> \in Signs
    <3>1. <<IF index = Len(chain) - 1 THEN LocalRoot ELSE source[index + 1],
            chain[index]>> \in Signs
      BY <2>3, <2>4 DEF WellMade
    <3>2. CASE index = Len(chain) - 1
      BY <2>2, <3>1, <3>2
    <3>3. CASE index # Len(chain) - 1
      <4>1. index + 1 \in 1 .. Len(chain) - 1
        BY <2>2, <2>4, <3>3
      <4>2. QED
        BY <2>3, <3>1, <3>3, <4>1
    <3>4. QED
      BY <3>2, <3>3
  <2>6. chain[index + 1] \in store
    <3>1. index + 1 \in index + 1 .. Len(checked)
      BY <2>1, <2>2
    <3>2. QED
      BY <2>1, <3>1 DEF StoreInv
  <2>7. Trusted(checked[index])
    BY <2>1, <2>5, <2>6 DEF Trusted
  <2>8. QED
    BY <1>4, <2>1, <2>7 DEF VerifyNext
<1>5. CASE Verified
  BY <1>5 DEF Verified
<1>6. CASE JudgeSigner \/ RejectOtherwise \/ Conclude
  BY <1>6 DEF JudgeSigner, RejectOtherwise, Conclude
<1>7. CASE Terminated
  BY <1>7 DEF Terminated
<1>8. QED
  BY <1>1, <1>2, <1>3, <1>4, <1>5, <1>6, <1>7 DEF Next

(* Every chain that is as it is meant to be gets to its revocation check.  *)
THEOREM WellMadeChainsPass == Spec => WellMadePasses
<1>1. IInv /\ [Next]_vars =>
        [WellMade /\ pc # "revocation" /\ signers = <<>> => pc' # "done"]_vars
  BY WellMadeGoesOn
<1>2. QED
  BY <1>1, SpecIInv, PTL DEF Spec, WellMadePasses
=============================================================================

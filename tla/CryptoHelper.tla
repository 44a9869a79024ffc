---------------------------- MODULE CryptoHelper ----------------------------
(***************************************************************************)
(* What the RSA operations of CryptoHelper.cpp return.  A key pair is named *)
(* by the run that generated it; a ciphertext is the pair of the key it was *)
(* made for and the plain AES key.                                         *)
(***************************************************************************)
EXTENDS Protocol

\* loadPrivateKeyBase64 succeeds on the base64 text of a whole key.  Text that
\* was cut short ends inside the DER sequence and makes Load throw.
loadPrivateKeyBase64(text) == text \in Procs

\* decryptAesKey: the plain key, or an empty vector when the private key is
\* not the one the ciphertext was made for.
decryptAesKey(privateKey, m) == IF m.aesFor = privateKey THEN m.aes ELSE Nil

\* Mutation of isAes256Key: the key is not checked.
anyKey(key) == TRUE

\* decryptedAesKey.size() == 32
isAes256Key(key) == key \in Procs
=============================================================================
